---- MODULE Spec2Model ----
(***************************************************************************)
(* Model of the proxy-check orchestrator of soxyCheckerGui:                *)
(* backend/checker/manager.go (type Manager and the worker / completion    *)
(* watcher goroutines spawned by Manager.Start).                           *)
(*                                                                         *)
(* Channels are heap objects: a channel is an identifier, `closed` is the  *)
(* set of closed channels, make(chan struct{}) takes an identifier nobody  *)
(* references any more.  Workers read m.stopChan, m.pauseChan and          *)
(* m.resumeChan without holding m.mutex each time they enter a select, so  *)
(* a read sees whatever channel the field holds at that moment.            *)
(*                                                                         *)
(* Manager.SetWorkerCount has no caller in the repository and is left out. *)
(*                                                                         *)
(* Beside the manager: the probes and DetectProxyType (result.go,          *)
(* auto_detect.go), ProxyResult and the views of ProxyResultList           *)
(* (result.go), and StatsTracker (stats.go), each driven by a caller in a  *)
(* specification of its own.                                               *)
(***************************************************************************)
EXTENDS Integers, Sequences, FiniteSets, TLC

\* ------------------------------------------------------------- bounds
MaxRuns == 3
MaxThreads == 2
MaxProxies == 2
\* Worker goroutines spawned, and endpoints submitted, over all runs of one
\* behaviour.
MaxWorkers == 2
MaxJobs == 2
\* Calls made on one ProxyResult.
MaxCalls == 4
\* The argument of StatsTracker.Reset, and the calls of UpdateWithResult after
\* one Reset.
MaxTotal == 2
MaxFolds == 3
\* Entries of a ProxyResultList.
MaxList == 3

Runs == 1..MaxRuns
Slots == 1..MaxThreads

\* ------------------------------------------------------------- vocabulary
Auto == "auto"
HTTP == "http"
HTTPS == "https"
SOCKS4 == "socks4"
SOCKS5 == "socks5"
UNKNOWN == "unknown"
ProxyTypes == {Auto, HTTP, HTTPS, SOCKS4, SOCKS5, UNKNOWN}

\* Inputs of Start and outcomes of the network calls drawn in Spec.
RequestTypes == {HTTP}
Latencies == {1}

\* The endpoints of the r-th Start: n distinct addresses, different per run.
ProxyListOf(r, n) == [k \in 1..n |-> (r - 1) * MaxProxies + k]

NoChan == 0
NoProxy == 0

\* ------------------------------------------------------------- addresses
\* An endpoint is named by a number; AddrText is the string it stands for:
\* "10.0.0.<a>:80" for the addresses of ProxyListOf, and "not-an-address".
NotAnAddress == MaxRuns * MaxProxies + 1
Addresses == 1..NotAnAddress
AddrText(a) ==
    IF a = NotAnAddress
    THEN <<"n", "o", "t", "-", "a", "n", "-", "a", "d", "d", "r", "e", "s", "s">>
    ELSE <<"1", "0", ".", "0", ".", "0", ".", ToString(a), ":", "8", "0">>

\* strings.Contains(text, ch) for a one-character ch
Contains(text, ch) == \E k \in 1..Len(text) : text[k] = ch

ErrInvalidProxyFormat == "invalid proxy format"
ErrUnsupportedProxyType == "unsupported proxy type"

\* The upstream proxy of a request: none, or an address.
NoUpstream == ""
UpstreamAddr == "10.0.0.200:1080"

\* fmt.Errorf("upstream proxy not supported for SOCKS4 checks"), and the same
\* for SOCKS5.
ErrUpstreamNotSupported(ty) ==
    IF ty = SOCKS4 THEN "upstream proxy not supported for SOCKS4 checks"
                     ELSE "upstream proxy not supported for SOCKS5 checks"

\* createUpstreamDialer: the error it returns, "" for nil.  A kind outside
\* the four is unsupported; for the four kinds the constructors dial nothing,
\* and what url.Parse and proxy.FromURL answer for http and https is counted
\* among the outcomes of the network.
CreateUpstreamDialer(upstreamType) ==
    IF upstreamType \in {HTTP, HTTPS, SOCKS4, SOCKS5}
    THEN ""
    ELSE ErrUnsupportedProxyType

\* A probe that dials whatever it is given.
CheckProxyNoFormatCheck(ty, proxy, upstream, upstreamType, reached) ==
    [err |-> IF reached THEN "" ELSE "probe failed", dialed |-> TRUE]

\* SOCKS probes that go on to dial the endpoint when an upstream is given.
CheckProxyIgnoresUpstream(ty, proxy, upstream, upstreamType, reached) ==
    IF ~Contains(AddrText(proxy), ":")
    THEN [err |-> ErrInvalidProxyFormat, dialed |-> FALSE]
    ELSE [err |-> IF reached THEN "" ELSE "probe failed", dialed |-> TRUE]

\* CheckHTTP, CheckHTTPS, CheckSOCKS4 and CheckSOCKS5, as far as they are
\* alike: the format check comes first and returns before anything is dialed.
\* With an upstream proxy the two SOCKS probes return their error next, and
\* the two HTTP probes return the error of createUpstreamDialer, if any.
\* Past these the outcome is the network's (reached: the endpoint answered
\* through the proxy).
CheckProxy(ty, proxy, upstream, upstreamType, reached) ==
    IF ~Contains(AddrText(proxy), ":")
    THEN [err |-> ErrInvalidProxyFormat, dialed |-> FALSE]
    ELSE IF upstream # NoUpstream /\ ty \in {SOCKS4, SOCKS5}
    THEN [err |-> ErrUpstreamNotSupported(ty), dialed |-> FALSE]
    ELSE IF upstream # NoUpstream /\ CreateUpstreamDialer(upstreamType) # ""
    THEN [err |-> "failed to create upstream connection", dialed |-> FALSE]
    ELSE [err |-> IF reached THEN "" ELSE "probe failed", dialed |-> TRUE]

\* ------------------------------------------------------------- DetectProxyType
\* protocols, in the order they are tried
Protocols == <<SOCKS5, SOCKS4, HTTPS, HTTP>>
QuickKinds == {SOCKS5, SOCKS4, HTTPS, HTTP}

\* What the four quick checks can answer for an address.  Without a port the
\* SOCKS5 dial and net.SplitHostPort of the SOCKS4 check fail; url.Parse of
\* the two HTTP checks accepts the host and the transport dials its port 80.
QuickOutcomes(proxy) ==
    { q \in [QuickKinds -> BOOLEAN] :
        ~Contains(AddrText(proxy), ":") => (~q[SOCKS5] /\ ~q[SOCKS4]) }

\* The frame of a call: the argument, the answers the quick checks give when
\* asked, the loop index, the checks run so far, and the returned pair.
NoDetect == [pc |-> "idle", proxy |-> NoProxy, quick |-> [k \in QuickKinds |-> FALSE],
             i |-> 0, ran |-> <<>>, kind |-> "", err |-> ""]

DetectEnter(proxy, q) ==
    [pc |-> "loop", proxy |-> proxy, quick |-> q, i |-> 1, ran |-> <<>>,
     kind |-> "", err |-> ""]

\* The loop that goes on after a quick check succeeded and returns the last
\* protocol that succeeded.
DetectIterateLast(f) ==
    IF f.i > Len(Protocols)
    THEN [f EXCEPT !.pc = "done",
                   !.err = IF f.kind = "" THEN "could not detect proxy type" ELSE ""]
    ELSE [f EXCEPT !.i = @ + 1,
                   !.ran = Append(@, Protocols[f.i]),
                   !.kind = IF f.quick[Protocols[f.i]] THEN Protocols[f.i] ELSE @]

\* One iteration of `for _, protocol := range protocols`, or the return after
\* the loop.
DetectIterate(f) ==
    IF f.i > Len(Protocols)
    THEN [f EXCEPT !.pc = "done", !.err = "could not detect proxy type"]
    ELSE IF f.quick[Protocols[f.i]]
         THEN [f EXCEPT !.pc = "done", !.kind = Protocols[f.i],
                        !.ran = Append(@, Protocols[f.i])]
         ELSE [f EXCEPT !.i = @ + 1, !.ran = Append(@, Protocols[f.i])]

RECURSIVE DetectReturn(_)
DetectReturn(f) == IF f.pc = "done" THEN f ELSE DetectReturn(DetectIterate(f))

\* DetectProxyType(proxy, timeout): the frame at its return.
DetectProxyType(proxy, q) == DetectReturn(DetectEnter(proxy, q))

\* What DetectProxyType can return for an address: a kind, or "" with an error.
DetectResults(proxy) ==
    { DetectProxyType(proxy, q).kind : q \in QuickOutcomes(proxy) }
NoResult == [Proxy |-> NoProxy, Type |-> "", Status |-> "", Latency |-> 0,
             Error |-> ""]
NoRequest == [ProxyList |-> <<>>, ProxyType |-> "", Threads |-> 0,
              UpstreamProxy |-> NoUpstream, UpstreamType |-> ""]
\* ret after a step that returns nothing to the caller.
NoRet == [op |-> "", ok |-> FALSE]
\* ret after Pause, Resume or ForcePause: the call and the bool it returned;
\* after a Start that found the manager running: Ret("Start", FALSE), for its
\* only effect, the log line "Check already in progress".
Ret(name, value) == [op |-> name, ok |-> value]

VARIABLES
    submitted,          \* endpoints submitted by the accepted Start calls so far
    running,            \* m.running
    paused,             \* m.paused
    results,            \* m.results
    working,            \* m.working
    stats,              \* m.stats
    stopChan,           \* m.stopChan
    pauseChan,          \* m.pauseChan
    resumeChan,         \* m.resumeChan
    closed,             \* the closed channels
    workerCount,        \* m.workerCount
    pausedWorkerCount,  \* m.pausedWorkerCount
    nruns,              \* number of accepted Start calls so far
    req,                \* req[r]: the request of run r
    jobs,               \* jobs[r]: the job channel of run r (filled and closed)
    wg,                 \* wg[r]: the WaitGroup counter of run r
    totalLatency,       \* totalLatency[r]: local of Start, shared by its workers
    liveCount,          \* liveCount[r]: local of Start, shared by its workers
    w,                  \* w[r][i]: worker goroutine i of run r
    watcher,            \* watcher[r]: completion goroutine of run r
    ret,                \* what the call made by the last step returned
    stopped,            \* stopped[r]: "no"; or how run r was when Stop was accepted
                        \* during it, "running" or "paused"; or "forced" (ForceStop)
    pausedRun,          \* the run Pause returned true on, as long as neither
                        \* Resume, Stop nor ForceStop was called since; else 0
    det,                \* the frame of a call of DetectProxyType
    pr,                 \* a ProxyResult made by NewPendingResult
    gotResults,         \* the slice a caller got from its last GetResults
    gotStats,           \* the Stats a caller got from its last GetStats
    tracker,            \* a StatsTracker
    folded,             \* the argument of the last Reset of the tracker, and
                        \* the results given to UpdateWithResult since
    resultList,         \* a ProxyResultList
    view                \* the last call of a derived view on the list, and
                        \* what it returned

vars == <<submitted, running, paused, results, working, stats, stopChan, pauseChan,
          resumeChan, closed, workerCount, pausedWorkerCount, nruns, req, jobs,
          wg, totalLatency, liveCount, w, watcher, ret, stopped,
          pausedRun, det, pr, gotResults, gotStats, tracker, folded, resultList,
          view>>

mgrFlags == <<running, paused, workerCount, pausedWorkerCount>>
mgrData == <<results, working, stats>>
mgrChans == <<stopChan, pauseChan, resumeChan, closed>>
history == <<stopped, pausedRun>>
runVars == <<submitted, nruns, req, jobs, wg, totalLatency, liveCount, w, watcher>>
\* What callers of the package hold besides the manager.
trackerVars == <<tracker, folded>>
listVars == <<resultList, view>>
unitVars == <<det, pr, trackerVars, listVars>>
snapVars == <<gotResults, gotStats>>
callerVars == <<unitVars, snapVars>>
\* The manager and the goroutines of its runs.
mgrVars == <<mgrFlags, mgrData, mgrChans, runVars, ret, history>>

\* ------------------------------------------------------------- channels
\* Channels some worker goroutine still references (evaluated select cases).
HeldBy(ws) ==
    { ws[r][i].rch : r \in Runs, i \in Slots } \cup
    { ws[r][i].sch : r \in Runs, i \in Slots }

MaxChans == 6 + 2 * MaxRuns * MaxThreads
Chans == 1..MaxChans

\* make(chan struct{}): a channel nobody references.
NewChan(used) == CHOOSE c \in Chans \ used : \A d \in Chans \ used : c <= d

IsClosed(c) == c \in closed

\* Worker goroutines spawned so far (running or returned).
Spawned == Cardinality({ <<r, i>> \in Runs \X Slots : w[r][i].pc # "idle" })

\* ------------------------------------------------------------- statistics
ZeroCounts == [k \in ProxyTypes |-> 0]

\* Stats{TypeCounts: make(map[ProxyType]int)}
ZeroStats == [Total |-> 0, Pending |-> 0, Live |-> 0, Dead |-> 0, Errors |-> 0,
              Checking |-> 0, AverageSpeed |-> 0, ThreadCount |-> 0,
              TypeCounts |-> ZeroCounts]

\* GetStats without the recomputation of Pending: the copy of m.stats.Pending.
GetStatsStale ==
    [Total |-> stats.Total,
     Pending |-> stats.Pending,
     Live |-> stats.Live,
     Dead |-> stats.Dead,
     Errors |-> stats.Errors,
     Checking |-> 0,
     AverageSpeed |-> stats.AverageSpeed,
     ThreadCount |-> 0,
     TypeCounts |-> stats.TypeCounts]

\* Manager.GetStats: a copy with Pending recomputed; Checking and ThreadCount
\* are not copied.
GetStats ==
    [Total |-> stats.Total,
     Pending |-> stats.Total - stats.Live - stats.Dead - stats.Errors,
     Live |-> stats.Live,
     Dead |-> stats.Dead,
     Errors |-> stats.Errors,
     Checking |-> 0,
     AverageSpeed |-> stats.AverageSpeed,
     ThreadCount |-> 0,
     TypeCounts |-> stats.TypeCounts]

GetResults == results
IsRunning == running
IsPaused == paused
GetWorkerCount == workerCount
GetPausedWorkerCount == pausedWorkerCount

\* ------------------------------------------------------------- ProxyResult
StatusPending == "pending"
StatusChecking == "checking"
StatusLive == "live"
StatusDead == "dead"
StatusError == "error"

\* No object yet.  Timestamp counts the calls that set it to time.Now().
NoObject == [Proxy |-> NoProxy, Type |-> "", Status |-> "", Latency |-> 0,
             OutgoingIP |-> "", Error |-> "", Timestamp |-> 0]

NewPendingResult(proxy, proxyType) ==
    [NoObject EXCEPT !.Proxy = proxy, !.Type = proxyType,
                     !.Status = StatusPending, !.Timestamp = 1]

SetChecking(o) == [o EXCEPT !.Status = StatusChecking, !.Timestamp = @ + 1]

SetLive(o, latency, outgoingIP) ==
    [o EXCEPT !.Status = StatusLive, !.Latency = latency,
              !.OutgoingIP = outgoingIP, !.Error = "", !.Timestamp = @ + 1]

SetDead(o, err) ==
    [o EXCEPT !.Status = StatusDead, !.Error = err, !.Timestamp = @ + 1]

SetError(o, err) ==
    [o EXCEPT !.Status = StatusError, !.Error = err, !.Timestamp = @ + 1]

SetType(o, proxyType) == [o EXCEPT !.Type = proxyType, !.Timestamp = @ + 1]

\* ------------------------------------------------------------- StatsTracker
\* NewStatsTracker(): every count zero, an empty map.
NewStatsTracker == [stats |-> ZeroStats, totalTime |-> 0, totalCount |-> 0]

\* StatsTracker.Reset(totalProxies)
Reset(totalProxies) ==
    [stats |-> [ZeroStats EXCEPT !.Total = totalProxies,
                                 !.Pending = totalProxies],
     totalTime |-> 0, totalCount |-> 0]

\* UpdateWithResult that folds the latency of every live result, 0 included.
UpdateWithResultAnyLatency(st, result) ==
    LET typed == IF result.Type # ""
                 THEN [st EXCEPT !.stats.TypeCounts[result.Type] = @ + 1]
                 ELSE st
    IN  IF result.Status = StatusLive
        THEN [typed EXCEPT !.stats.Live = @ + 1,
                           !.stats.Pending = @ - 1,
                           !.totalTime = @ + result.Latency,
                           !.totalCount = @ + 1,
                           !.stats.AverageSpeed =
                               (typed.totalTime + result.Latency)
                                   \div (typed.totalCount + 1)]
        ELSE IF result.Status = StatusDead
        THEN [typed EXCEPT !.stats.Dead = @ + 1, !.stats.Pending = @ - 1]
        ELSE IF result.Status = StatusError
        THEN [typed EXCEPT !.stats.Errors = @ + 1, !.stats.Pending = @ - 1]
        ELSE IF result.Status = StatusChecking
        THEN [typed EXCEPT !.stats.Checking = @ + 1, !.stats.Pending = @ - 1]
        ELSE typed

\* StatsTracker.UpdateWithResult(result), under st.mutex: the count of the
\* kind, the switch on the status (no case for a status outside the five
\* constants), and for a live result of a positive latency the totals and
\* the average.
UpdateWithResult(st, result) ==
    LET typed == IF result.Type # ""
                 THEN [st EXCEPT !.stats.TypeCounts[result.Type] = @ + 1]
                 ELSE st
    IN  IF result.Status = StatusLive
        THEN LET counted == [typed EXCEPT !.stats.Live = @ + 1,
                                          !.stats.Pending = @ - 1]
             IN  IF result.Latency > 0
                 THEN [counted EXCEPT
                          !.totalTime = @ + result.Latency,
                          !.totalCount = @ + 1,
                          !.stats.AverageSpeed =
                              (counted.totalTime + result.Latency)
                                  \div (counted.totalCount + 1)]
                 ELSE counted
        ELSE IF result.Status = StatusDead
        THEN [typed EXCEPT !.stats.Dead = @ + 1, !.stats.Pending = @ - 1]
        ELSE IF result.Status = StatusError
        THEN [typed EXCEPT !.stats.Errors = @ + 1, !.stats.Pending = @ - 1]
        ELSE IF result.Status = StatusChecking
        THEN [typed EXCEPT !.stats.Checking = @ + 1, !.stats.Pending = @ - 1]
        ELSE typed

\* MarkCheckingAsDead that adds the checking count to Dead and keeps it in
\* Checking.
MarkCheckingAsDeadKeepsChecking(st) ==
    [st EXCEPT !.stats.Dead = @ + st.stats.Checking]

\* StatsTracker.MarkCheckingAsDead(), under st.mutex
MarkCheckingAsDead(st) ==
    [st EXCEPT !.stats.Dead = @ + st.stats.Checking, !.stats.Checking = 0]

\* Nothing folded since NewStatsTracker, whose Total is 0.
NothingFolded == [n |-> 0, results |-> <<>>]

\* ------------------------------------------------------------- ProxyResultList
\* The characters of a kind, as string(r.Type) gives them.
TypeText(ty) ==
    CASE ty = HTTP -> <<"h", "t", "t", "p">>
      [] ty = HTTPS -> <<"h", "t", "t", "p", "s">>
      [] ty = SOCKS4 -> <<"s", "o", "c", "k", "s", "4">>
      [] ty = SOCKS5 -> <<"s", "o", "c", "k", "s", "5">>
      [] ty = Auto -> <<"a", "u", "t", "o">>
      [] ty = UNKNOWN -> <<"u", "n", "k", "n", "o", "w", "n">>
      [] OTHER -> <<>>

\* A call of a view: what it returns, and the list of the receiver after it.
\* The loops `for _, r := range l` append to a slice of their own
\* (var result), so the receiver is as it was.
\* keep: the objects that pass the test of the loop.
RECURSIVE FilterLoop(_, _, _)
FilterLoop(l, keep, result) ==
    IF l = <<>>
    THEN result
    ELSE FilterLoop(Tail(l), keep,
                    IF Head(l) \in keep THEN Append(result, Head(l)) ELSE result)

\* The objects a list points to.
Entries(l) == { l[k] : k \in 1..Len(l) }

\* A filter that appends to l[:0], the array of the receiver.
FilterByStatusInPlace(l, status) ==
    LET out == FilterLoop(l, { r \in Entries(l) : r.Status = status }, <<>>)
    IN  [out |-> out, l |-> out \o SubSeq(l, Len(out) + 1, Len(l))]

FilterByStatus(l, status) ==
    [out |-> FilterLoop(l, { r \in Entries(l) : r.Status = status }, <<>>),
     l |-> l]

FilterByType(l, proxyType) ==
    [out |-> FilterLoop(l, { r \in Entries(l) : r.Type = proxyType }, <<>>),
     l |-> l]

GetLiveProxies(l) ==
    LET live == FilterLoop(l, { r \in Entries(l) : r.Status = StatusLive }, <<>>)
    IN  [out |-> [k \in 1..Len(live) |-> live[k].Proxy], l |-> l]

\* string(r.Type) + "://" + r.Proxy
GetLiveProxiesWithType(l) ==
    LET live == FilterLoop(l, { r \in Entries(l) : r.Status = StatusLive }, <<>>)
    IN  [out |-> [k \in 1..Len(live) |->
                     TypeText(live[k].Type) \o <<":", "/", "/">>
                         \o AddrText(live[k].Proxy)],
         l |-> l]

\* No view called since the list changed.
NoView == [op |-> "", arg |-> "", out |-> <<>>]

\* ------------------------------------------------------------- callers' values
\* What GetResults returned: the elements the caller sees, and whether the
\* slice shares its backing array with m.results.
NilSlice == [list |-> <<>>, shared |-> FALSE]
\* What GetStats returned: the struct, and whether its TypeCounts is the map
\* m.stats.TypeCounts itself.
NoStats == [stats |-> ZeroStats, shared |-> FALSE]

\* ------------------------------------------------------------- initial state
IdleWorker == [pc |-> "idle", proxy |-> NoProxy, res |-> NoResult,
               rch |-> NoChan, sch |-> NoChan]

\* NewManager()
Init ==
    /\ running = FALSE
    /\ paused = FALSE
    /\ results = <<>>
    /\ working = <<>>
    /\ stats = ZeroStats
    /\ stopChan = 1
    /\ pauseChan = 2
    /\ resumeChan = 3
    /\ closed = {}
    /\ workerCount = 0
    /\ pausedWorkerCount = 0
    /\ nruns = 0
    /\ submitted = 0
    /\ req = [r \in Runs |-> NoRequest]
    /\ jobs = [r \in Runs |-> <<>>]
    /\ wg = [r \in Runs |-> 0]
    /\ totalLatency = [r \in Runs |-> 0]
    /\ liveCount = [r \in Runs |-> 0]
    /\ w = [r \in Runs |-> [i \in Slots |-> IdleWorker]]
    /\ watcher = [r \in Runs |-> "idle"]
    /\ ret = NoRet
    /\ stopped = [r \in Runs |-> "no"]
    /\ pausedRun = 0
    /\ det = NoDetect
    /\ pr = NoObject
    /\ gotResults = NilSlice
    /\ gotStats = NoStats
    /\ tracker = NewStatsTracker
    /\ folded = NothingFolded
    /\ resultList = <<>>
    /\ view = NoView

\* ------------------------------------------------------------- Manager calls
\* A Start that resets the collection before it looks at m.running.
StartRejectedAfterReset ==
    /\ running
    /\ ret' = Ret("Start", FALSE)
    /\ results' = <<>>
    /\ working' = <<>>
    /\ UNCHANGED <<mgrFlags, stats, mgrChans, runVars, history, callerVars>>

\* Manager.Start, the branch taken while m.running: only logs.
StartRejected ==
    /\ running
    /\ ret' = Ret("Start", FALSE)
    /\ UNCHANGED <<mgrFlags, mgrData, mgrChans, runVars, history>>
    /\ UNCHANGED callerVars

\* Manager.Start on a manager that is not running: resets the state (a new
\* slice, a new map), fills and closes the job channel, spawns req.Threads
\* workers and the watcher.
StartRequest(list, t, kind, upstream, upstreamType) ==
    /\ ~running
    /\ nruns < MaxRuns
    /\ submitted' = submitted + Len(list)
    /\ LET r == nruns + 1
           held == HeldBy(w)
           s == NewChan(held)
           p == NewChan(held \cup {s})
           c == NewChan(held \cup {s, p})
       IN  /\ running' = TRUE
           /\ paused' = FALSE
           /\ results' = <<>>
           /\ working' = <<>>
           /\ stats' = [ZeroStats EXCEPT !.Total = Len(list), !.Pending = Len(list),
                                         !.ThreadCount = t]
           /\ workerCount' = t
           /\ stopChan' = s
           /\ pauseChan' = p
           /\ resumeChan' = c
           /\ closed' = closed \cap held
           /\ pausedWorkerCount' = 0
           /\ nruns' = r
           /\ req' = [req EXCEPT ![r] = [ProxyList |-> list,
                                         ProxyType |-> kind, Threads |-> t,
                                         UpstreamProxy |-> upstream,
                                         UpstreamType |-> upstreamType]]
           /\ jobs' = [jobs EXCEPT ![r] = list]
           /\ wg' = [wg EXCEPT ![r] = t]
           /\ totalLatency' = [totalLatency EXCEPT ![r] = 0]
           /\ liveCount' = [liveCount EXCEPT ![r] = 0]
           /\ w' = [w EXCEPT ![r] = [i \in Slots |->
                        IF i <= t THEN [IdleWorker EXCEPT !.pc = "range"]
                                  ELSE IdleWorker]]
           /\ watcher' = [watcher EXCEPT ![r] = "wait"]
    /\ ret' = NoRet
    /\ UNCHANGED history
    /\ gotResults' = [gotResults EXCEPT !.shared = FALSE]
    /\ gotStats' = [gotStats EXCEPT !.shared = FALSE]
    /\ UNCHANGED unitVars

\* Manager.Start with req.Threads < 0 on a manager that is not running: the
\* state is reset and the lock released, the job channel is filled and closed,
\* and wg.Add(req.Threads) panics ("sync: negative WaitGroup counter") before
\* any worker or the watcher is spawned.  ret records the panic; the steps after
\* it are those of a caller that recovers.
StartPanics(list, t, kind) ==
    /\ ~running
    /\ nruns < MaxRuns
    /\ t < 0
    /\ submitted' = submitted + Len(list)
    /\ LET r == nruns + 1
           held == HeldBy(w)
           s == NewChan(held)
           p == NewChan(held \cup {s})
           c == NewChan(held \cup {s, p})
       IN  /\ running' = TRUE
           /\ paused' = FALSE
           /\ results' = <<>>
           /\ working' = <<>>
           /\ stats' = [ZeroStats EXCEPT !.Total = Len(list), !.Pending = Len(list),
                                         !.ThreadCount = t]
           /\ workerCount' = t
           /\ stopChan' = s
           /\ pauseChan' = p
           /\ resumeChan' = c
           /\ closed' = closed \cap held
           /\ pausedWorkerCount' = 0
           /\ nruns' = r
           /\ req' = [req EXCEPT ![r] = [ProxyList |-> list,
                                         ProxyType |-> kind, Threads |-> t,
                                         UpstreamProxy |-> NoUpstream,
                                         UpstreamType |-> ""]]
           /\ jobs' = [jobs EXCEPT ![r] = list]
           /\ UNCHANGED <<wg, totalLatency, liveCount, w, watcher>>
    /\ ret' = Ret("Start: panic", FALSE)
    /\ UNCHANGED history
    /\ gotResults' = [gotResults EXCEPT !.shared = FALSE]
    /\ gotStats' = [gotStats EXCEPT !.shared = FALSE]
    /\ UNCHANGED unitVars

\* A Start without an upstream proxy.
StartList(list, t, kind) == StartRequest(list, t, kind, NoUpstream, "")

\* The r-th accepted Start, over n addresses of its own.
StartAccepted(n, t, kind) == StartList(ProxyListOf(nruns + 1, n), t, kind)

Start ==
    \/ StartRejected
    \/ \E n \in 0..MaxProxies, t \in 1..MaxThreads, kind \in RequestTypes :
           /\ Spawned + t <= MaxWorkers
           /\ submitted + n <= MaxJobs
           /\ StartAccepted(n, t, kind)

\* Stop that signals the workers and leaves m.running to the watcher.
StopLeavesRunning ==
    /\ ret' = NoRet
    /\ pausedRun' = 0
    /\ IF ~running
       THEN UNCHANGED <<mgrFlags, mgrData, mgrChans, runVars, stopped>>
       ELSE /\ IF IsClosed(stopChan)
               THEN /\ stopChan' = NewChan(HeldBy(w) \cup {pauseChan, resumeChan})
                    /\ closed' = closed \cap (HeldBy(w) \cup {pauseChan, resumeChan})
               ELSE /\ closed' = closed \cup {stopChan}
                    /\ UNCHANGED stopChan
            /\ stopped' = [stopped EXCEPT ![nruns] = IF paused THEN "paused"
                                                            ELSE "running"]
            /\ UNCHANGED <<running, paused, workerCount, pausedWorkerCount,
                           mgrData, pauseChan, resumeChan, runVars>>
    /\ UNCHANGED callerVars

\* Manager.Stop (the force argument is not read).
Stop ==
    /\ ret' = NoRet
    /\ pausedRun' = 0
    /\ IF ~running
       THEN UNCHANGED <<mgrFlags, mgrData, mgrChans, runVars, stopped>>
       ELSE /\ IF IsClosed(stopChan)
               THEN /\ stopChan' = NewChan(HeldBy(w) \cup {pauseChan, resumeChan})
                    /\ closed' = closed \cap (HeldBy(w) \cup {pauseChan, resumeChan})
               ELSE /\ closed' = closed \cup {stopChan}
                    /\ UNCHANGED stopChan
            /\ running' = FALSE
            /\ stopped' = [stopped EXCEPT ![nruns] = IF paused THEN "paused"
                                                            ELSE "running"]
            /\ UNCHANGED <<paused, workerCount, pausedWorkerCount, mgrData,
                           pauseChan, resumeChan, runVars>>
    /\ UNCHANGED callerVars

\* Pause that checks only m.running, not m.paused.
PauseNoPausedCheck ==
    /\ IF ~running
       THEN /\ ret' = Ret("Pause", FALSE)
            /\ UNCHANGED <<mgrFlags, mgrData, mgrChans, runVars, history>>
       ELSE /\ paused' = TRUE
            /\ pausedWorkerCount' = 0
            /\ closed' = closed \cup {pauseChan}
            /\ ret' = Ret("Pause", TRUE)
            /\ pausedRun' = nruns
            /\ UNCHANGED <<running, workerCount, mgrData, stopChan, pauseChan,
                           resumeChan, runVars, stopped>>
    /\ UNCHANGED callerVars

\* Manager.Pause
Pause ==
    /\ IF ~running \/ paused
       THEN /\ ret' = Ret("Pause", FALSE)
            /\ UNCHANGED <<mgrFlags, mgrData, mgrChans, runVars, history>>
       ELSE /\ paused' = TRUE
            /\ pausedWorkerCount' = 0
            /\ closed' = closed \cup {pauseChan}
            /\ ret' = Ret("Pause", TRUE)
            /\ pausedRun' = nruns
            /\ UNCHANGED <<running, workerCount, mgrData, stopChan, pauseChan,
                           resumeChan, runVars, stopped>>
    /\ UNCHANGED callerVars

\* Resume that does not replace the closed pause channel.
ResumeKeepPauseChan ==
    /\ IF ~running \/ ~paused
       THEN /\ ret' = Ret("Resume", FALSE)
            /\ pausedRun' = 0
            /\ UNCHANGED <<mgrFlags, mgrData, mgrChans, runVars, stopped>>
       ELSE LET held == HeldBy(w)
                c == NewChan(held \cup {stopChan, pauseChan})
            IN  /\ paused' = FALSE
                /\ resumeChan' = c
                /\ closed' = (closed \cup {resumeChan})
                                 \cap (held \cup {stopChan, pauseChan})
                /\ ret' = Ret("Resume", TRUE)
                /\ pausedRun' = 0
                /\ UNCHANGED <<running, workerCount, pausedWorkerCount, mgrData,
                               stopChan, pauseChan, runVars, stopped>>
    /\ UNCHANGED callerVars

\* Manager.Resume
Resume ==
    /\ IF ~running \/ ~paused
       THEN /\ ret' = Ret("Resume", FALSE)
            /\ pausedRun' = 0
            /\ UNCHANGED <<mgrFlags, mgrData, mgrChans, runVars, stopped>>
       ELSE LET held == HeldBy(w)
                p == NewChan(held \cup {stopChan})
                c == NewChan(held \cup {stopChan, p})
            IN  /\ paused' = FALSE
                /\ pauseChan' = p
                /\ resumeChan' = c
                /\ closed' = (closed \cup {resumeChan}) \cap (held \cup {stopChan})
                /\ ret' = Ret("Resume", TRUE)
                /\ pausedRun' = 0
                /\ UNCHANGED <<running, workerCount, pausedWorkerCount, mgrData,
                               stopChan, runVars, stopped>>
    /\ UNCHANGED callerVars

\* Manager.ForceStop
ForceStop ==
    /\ ret' = NoRet
    /\ pausedRun' = 0
    /\ IF ~running
       THEN UNCHANGED <<mgrFlags, mgrData, mgrChans, runVars, stopped>>
       ELSE LET held == HeldBy(w)
                s == NewChan(held)
                p == NewChan(held \cup {s})
                c == NewChan(held \cup {s, p})
            IN  /\ stopChan' = s
                /\ pauseChan' = p
                /\ resumeChan' = c
                /\ closed' = (closed \cup {stopChan}) \cap held
                /\ running' = FALSE
                /\ paused' = FALSE
                /\ pausedWorkerCount' = 0
                /\ stopped' = [stopped EXCEPT ![nruns] = "forced"]
                /\ UNCHANGED <<workerCount, mgrData, runVars>>
    /\ UNCHANGED callerVars

\* ForcePause that resets the paused-worker counter to 0, as Pause does.
ForcePauseZeroCount ==
    /\ IF ~running \/ paused
       THEN /\ ret' = Ret("ForcePause", FALSE)
            /\ UNCHANGED <<mgrFlags, mgrData, mgrChans, runVars, history>>
       ELSE LET held == HeldBy(w)
                p == NewChan(held \cup {stopChan, resumeChan})
            IN  /\ paused' = TRUE
                /\ pauseChan' = p
                /\ closed' = closed \cap (held \cup {stopChan, resumeChan})
                /\ pausedWorkerCount' = 0
                /\ ret' = Ret("ForcePause", TRUE)
                /\ UNCHANGED <<running, workerCount, mgrData, stopChan, resumeChan,
                               runVars, history>>
    /\ UNCHANGED callerVars

\* Manager.ForcePause
ForcePause ==
    /\ IF ~running \/ paused
       THEN /\ ret' = Ret("ForcePause", FALSE)
            /\ UNCHANGED <<mgrFlags, mgrData, mgrChans, runVars, history>>
       ELSE LET held == HeldBy(w)
                p == NewChan(held \cup {stopChan, resumeChan})
            IN  /\ paused' = TRUE
                /\ pauseChan' = p
                /\ closed' = closed \cap (held \cup {stopChan, resumeChan})
                /\ pausedWorkerCount' = workerCount
                /\ ret' = Ret("ForcePause", TRUE)
                /\ UNCHANGED <<running, workerCount, mgrData, stopChan, resumeChan,
                               runVars, history>>
    /\ UNCHANGED callerVars

\* ClearResults that empties the collection and leaves the statistics.
ClearResultsKeepStats ==
    /\ ret' = NoRet
    /\ IF running /\ ~paused
       THEN UNCHANGED <<mgrFlags, mgrData, mgrChans, runVars, history, snapVars>>
       ELSE /\ results' = <<>>
            /\ working' = <<>>
            /\ gotResults' = [gotResults EXCEPT !.shared = FALSE]
            /\ UNCHANGED <<mgrFlags, stats, mgrChans, runVars, history, gotStats>>
    /\ UNCHANGED unitVars

\* Manager.ClearResults
ClearResults ==
    /\ ret' = NoRet
    /\ IF running /\ ~paused
       THEN UNCHANGED <<mgrFlags, mgrData, mgrChans, runVars, history, snapVars>>
       ELSE /\ results' = <<>>
            /\ working' = <<>>
            /\ stats' = ZeroStats
            /\ gotResults' = [gotResults EXCEPT !.shared = FALSE]
            /\ gotStats' = [gotStats EXCEPT !.shared = FALSE]
            /\ UNCHANGED <<mgrFlags, mgrChans, runVars, history>>
    /\ UNCHANGED unitVars

\* ------------------------------------------------------------- worker goroutine
SetW(r, i, rec) == w' = [w EXCEPT ![r][i] = rec]

\* defer wg.Done() on return from the worker function
WorkerReturn(r, i) ==
    /\ SetW(r, i, [IdleWorker EXCEPT !.pc = "done"])
    /\ wg' = [wg EXCEPT ![r] = wg[r] - 1]

\* A receive that leaves the endpoint in the queue.
TakeJobLeavesIt(r, i) ==
    /\ w[r][i].pc = "range"
    /\ IF jobs[r] = <<>>
       THEN /\ WorkerReturn(r, i)
            /\ UNCHANGED jobs
       ELSE /\ SetW(r, i, [w[r][i] EXCEPT !.pc = "select", !.proxy = Head(jobs[r])])
            /\ UNCHANGED <<jobs, wg>>
    /\ ret' = NoRet
    /\ UNCHANGED <<mgrFlags, mgrData, mgrChans, submitted, nruns, req, totalLatency,
                   liveCount, watcher, history>>
    /\ UNCHANGED callerVars

\* for proxy := range jobs: the next endpoint, or the end of the closed channel.
TakeJob(r, i) ==
    /\ w[r][i].pc = "range"
    /\ IF jobs[r] = <<>>
       THEN /\ WorkerReturn(r, i)
            /\ UNCHANGED jobs
       ELSE /\ SetW(r, i, [w[r][i] EXCEPT !.pc = "select", !.proxy = Head(jobs[r])])
            /\ jobs' = [jobs EXCEPT ![r] = Tail(jobs[r])]
            /\ UNCHANGED wg
    /\ ret' = NoRet
    /\ UNCHANGED <<mgrFlags, mgrData, mgrChans, submitted, nruns, req, totalLatency,
                   liveCount, watcher, history>>
    /\ UNCHANGED callerVars

\* The select at the job boundary: a ready case is chosen among the ready ones,
\* default only when neither m.stopChan nor m.pauseChan is closed.
BoundarySelect(r, i) ==
    /\ w[r][i].pc = "select"
    /\ \/ /\ IsClosed(stopChan)
          /\ WorkerReturn(r, i)
       \/ /\ IsClosed(pauseChan)
          /\ SetW(r, i, [w[r][i] EXCEPT !.pc = "paused"])
          /\ UNCHANGED wg
       \/ /\ ~IsClosed(stopChan)
          /\ ~IsClosed(pauseChan)
          /\ SetW(r, i, [w[r][i] EXCEPT !.pc = "probe"])
          /\ UNCHANGED wg
    /\ ret' = NoRet
    /\ UNCHANGED <<mgrFlags, mgrData, mgrChans, submitted, nruns, req, jobs, totalLatency,
                   liveCount, watcher, history>>
    /\ UNCHANGED callerVars

\* case <-m.pauseChan: after the log line the inner select evaluates
\* m.resumeChan and m.stopChan and waits on those two channels.
EnterPauseWait(r, i) ==
    /\ w[r][i].pc = "paused"
    /\ SetW(r, i, [w[r][i] EXCEPT !.pc = "wait", !.rch = resumeChan,
                                  !.sch = stopChan])
    /\ ret' = NoRet
    /\ UNCHANGED <<mgrFlags, mgrData, mgrChans, submitted, nruns, req, jobs, wg,
                   totalLatency, liveCount, watcher, history>>
    /\ UNCHANGED callerVars

\* The inner select fires: resumed (the loop goes on to the next endpoint of
\* the range) or stopped (return).
LeavePauseWait(r, i) ==
    /\ w[r][i].pc = "wait"
    /\ \/ /\ IsClosed(w[r][i].rch)
          /\ SetW(r, i, [IdleWorker EXCEPT !.pc = "range"])
          /\ UNCHANGED wg
       \/ /\ IsClosed(w[r][i].sch)
          /\ WorkerReturn(r, i)
    /\ closed' = closed \cap (HeldBy(w') \cup {stopChan, pauseChan, resumeChan})
    /\ ret' = NoRet
    /\ UNCHANGED <<mgrFlags, mgrData, stopChan, pauseChan, resumeChan, submitted,
                   nruns,
                   req, jobs, totalLatency, liveCount, watcher, history>>
    /\ UNCHANGED callerVars

\* The resolution without the fallback: a failed detection leaves Auto.
ResolveTypeNoFallback(kind, detected) ==
    IF kind = Auto
    THEN (IF detected = "" THEN Auto ELSE detected)
    ELSE kind

\* proxyType := req.ProxyType; if Auto, the detected kind, HTTP when
\* detection fails.
ResolveType(kind, detected) ==
    IF kind = Auto
    THEN (IF detected = "" THEN HTTP ELSE detected)
    ELSE kind

\* The kinds an endpoint of a request of this kind can be probed as.
ResolvedTypes(kind, proxy) ==
    { ResolveType(kind, found) : found \in DetectResults(proxy) }

\* The switch on proxyType: the four probes may succeed or fail, any other
\* kind is "unsupported proxy type".  The value is the set of error texts the
\* call can end with, "" standing for a nil error.
CheckErrors(ty, proxy, upstream, upstreamType) ==
    IF ty \in {HTTP, HTTPS, SOCKS4, SOCKS5}
    THEN { CheckProxy(ty, proxy, upstream, upstreamType, reached).err :
               reached \in BOOLEAN }
    ELSE {"unsupported proxy type"}

\* A result that files a failed probe under the error status.
MakeResultErrorStatus(proxy, ty, err, lat) ==
    [Proxy |-> proxy, Type |-> ty,
     Status |-> IF err # "" THEN "ERROR" ELSE "LIVE",
     Latency |-> lat, Error |-> err]

\* The ProxyResult built after the probe returned.
MakeResult(proxy, ty, err, lat) ==
    [Proxy |-> proxy, Type |-> ty,
     Status |-> IF err # "" THEN "DEAD" ELSE "LIVE",
     Latency |-> lat, Error |-> err]

\* default: the probe of the endpoint runs to its end; a live result adds its
\* latency to totalLatency (under latencyMutex).
ProbeReturns(r, i, lats) ==
    /\ w[r][i].pc = "probe"
    /\ \E ty \in ResolvedTypes(req[r].ProxyType, w[r][i].proxy), lat \in lats :
             \E err \in CheckErrors(ty, w[r][i].proxy, req[r].UpstreamProxy,
                                     req[r].UpstreamType) :
               LET res == MakeResult(w[r][i].proxy, ty, err, lat)
               IN  IF res.Status = "LIVE"
                   THEN /\ totalLatency' = [totalLatency EXCEPT
                                               ![r] = totalLatency[r] + lat]
                        /\ SetW(r, i, [w[r][i] EXCEPT !.pc = "count", !.res = res])
                   ELSE /\ SetW(r, i, [w[r][i] EXCEPT !.pc = "append", !.res = res])
                        /\ UNCHANGED totalLatency
    /\ ret' = NoRet
    /\ UNCHANGED <<mgrFlags, mgrData, mgrChans, submitted, nruns, req, jobs, wg, liveCount,
                   watcher, history>>
    /\ UNCHANGED callerVars

ProbeDone(r, i) == ProbeReturns(r, i, Latencies)

\* liveCount++ (still under latencyMutex, which the reader at the append
\* does not take).
CountLive(r, i) ==
    /\ w[r][i].pc = "count"
    /\ liveCount' = [liveCount EXCEPT ![r] = liveCount[r] + 1]
    /\ SetW(r, i, [w[r][i] EXCEPT !.pc = "append"])
    /\ ret' = NoRet
    /\ UNCHANGED <<mgrFlags, mgrData, mgrChans, submitted, nruns, req, jobs, wg,
                   totalLatency, watcher, history>>
    /\ UNCHANGED callerVars

\* The fold without m.stats.TypeCounts[proxyType]++.
FoldStatsNoTypeCount(st, res, total, count) ==
    LET a == [st EXCEPT
                 !.Live = IF res.Status = "LIVE" THEN @ + 1 ELSE @,
                 !.Dead = IF res.Status # "LIVE" /\ res.Status = "DEAD"
                          THEN @ + 1 ELSE @,
                 !.Errors = IF res.Status # "LIVE" /\ res.Status # "DEAD"
                            THEN @ + 1 ELSE @]
    IN  IF count > 0
        THEN [a EXCEPT !.AverageSpeed = total \div count]
        ELSE a

\* The statistics after one result is folded in (under m.mutex).
FoldStats(st, res, total, count) ==
    LET a == [st EXCEPT
                 !.Live = IF res.Status = "LIVE" THEN @ + 1 ELSE @,
                 !.Dead = IF res.Status # "LIVE" /\ res.Status = "DEAD"
                          THEN @ + 1 ELSE @,
                 !.Errors = IF res.Status # "LIVE" /\ res.Status # "DEAD"
                            THEN @ + 1 ELSE @,
                 !.TypeCounts[res.Type] = @ + 1]
    IN  IF count > 0
        THEN [a EXCEPT !.AverageSpeed = total \div count]
        ELSE a

\* A worker that looks at the stop channel once more after the probe and
\* returns without recording the result when it is closed.
AppendResultUnlessStopped(r, i) ==
    /\ w[r][i].pc = "append"
    /\ IF IsClosed(stopChan)
       THEN /\ WorkerReturn(r, i)
            /\ UNCHANGED <<mgrData, snapVars>>
       ELSE /\ results' = Append(results, w[r][i].res)
            /\ working' = IF w[r][i].res.Status = "LIVE"
                          THEN Append(working, w[r][i].proxy)
                          ELSE working
            /\ stats' = FoldStats(stats, w[r][i].res, totalLatency[r], liveCount[r])
            /\ SetW(r, i, [IdleWorker EXCEPT !.pc = "range"])
            /\ IF gotResults.shared
               THEN \E still \in BOOLEAN :
                        gotResults' = [gotResults EXCEPT !.shared = still]
               ELSE UNCHANGED gotResults
            /\ gotStats' = IF gotStats.shared
                           THEN [gotStats EXCEPT
                                    !.stats.TypeCounts = stats'.TypeCounts]
                           ELSE gotStats
            /\ UNCHANGED wg
    /\ ret' = NoRet
    /\ UNCHANGED <<mgrFlags, mgrChans, submitted, nruns, req, jobs, totalLatency,
                   liveCount, watcher, history>>
    /\ UNCHANGED unitVars

\* m.mutex.Lock(); append the result, update the statistics; Unlock;
\* updateCb() (which only reads the manager).  append writes behind the length
\* of the old slice or into a new array, so no holder of the old slice sees
\* it, and a new array ends any sharing; TypeCounts[proxyType]++ writes into
\* the map, which every holder of that map sees.
AppendResult(r, i) ==
    /\ w[r][i].pc = "append"
    /\ results' = Append(results, w[r][i].res)
    /\ working' = IF w[r][i].res.Status = "LIVE"
                  THEN Append(working, w[r][i].proxy)
                  ELSE working
    /\ stats' = FoldStats(stats, w[r][i].res, totalLatency[r], liveCount[r])
    /\ SetW(r, i, [IdleWorker EXCEPT !.pc = "range"])
    /\ ret' = NoRet
    /\ UNCHANGED <<mgrFlags, mgrChans, submitted, nruns, req, jobs, wg, totalLatency,
                   liveCount, watcher, history>>
    /\ IF gotResults.shared
       THEN \E still \in BOOLEAN : gotResults' = [gotResults EXCEPT !.shared = still]
       ELSE UNCHANGED gotResults
    /\ gotStats' = IF gotStats.shared
                   THEN [gotStats EXCEPT !.stats.TypeCounts = stats'.TypeCounts]
                   ELSE gotStats
    /\ UNCHANGED unitVars

\* ------------------------------------------------------------- completion watcher
\* The watcher without wg.Wait(): it clears the flags while workers still run.
WatcherFinishNoWait(r) ==
    /\ watcher[r] = "wait"
    /\ running' = FALSE
    /\ paused' = FALSE
    /\ watcher' = [watcher EXCEPT ![r] = "notify"]
    /\ ret' = NoRet
    /\ UNCHANGED <<workerCount, pausedWorkerCount, mgrData, mgrChans, submitted,
                   nruns, req, jobs, wg, totalLatency, liveCount, w, history>>
    /\ UNCHANGED callerVars

\* wg.Wait() returns; running and paused are cleared under m.mutex.
WatcherFinish(r) ==
    /\ watcher[r] = "wait"
    /\ wg[r] = 0
    /\ running' = FALSE
    /\ paused' = FALSE
    /\ watcher' = [watcher EXCEPT ![r] = "notify"]
    /\ ret' = NoRet
    /\ UNCHANGED <<workerCount, pausedWorkerCount, mgrData, mgrChans, submitted,
                   nruns, req,
                   jobs, wg, totalLatency, liveCount, w, history>>
    /\ UNCHANGED callerVars

\* logCb("Proxy check completed"); updateCb(); the goroutine ends, and with it
\* the last reference to the locals of this Start (job channel, latency
\* totals), which are forgotten.
WatcherNotify(r) ==
    /\ watcher[r] = "notify"
    /\ watcher' = [watcher EXCEPT ![r] = "done"]
    /\ jobs' = [jobs EXCEPT ![r] = <<>>]
    /\ totalLatency' = [totalLatency EXCEPT ![r] = 0]
    /\ liveCount' = [liveCount EXCEPT ![r] = 0]
    /\ ret' = NoRet
    /\ UNCHANGED <<mgrFlags, mgrData, mgrChans, submitted, nruns, req, wg, w,
                   history>>
    /\ UNCHANGED callerVars

\* ------------------------------------------------------------- calls outside a run
\* A caller enters DetectProxyType with an address; the quick checks will
\* answer as q says.
DetectCall ==
    /\ det.pc \in {"idle", "done"}
    /\ \E proxy \in Addresses :
         \E q \in QuickOutcomes(proxy) : det' = DetectEnter(proxy, q)
    /\ UNCHANGED <<mgrVars, pr, snapVars, trackerVars, listVars>>

DetectStep ==
    /\ det.pc = "loop"
    /\ det' = DetectIterate(det)
    /\ UNCHANGED <<mgrVars, pr, snapVars, trackerVars, listVars>>

\* Calls on one ProxyResult, in any order.
ErrorTexts == {"probe failed", ErrInvalidProxyFormat}

ResultNew ==
    /\ pr = NoObject
    /\ \E proxy \in {1, NotAnAddress}, ty \in {Auto, HTTP} :
         pr' = NewPendingResult(proxy, ty)
    /\ UNCHANGED <<mgrVars, det, snapVars, trackerVars, listVars>>

ResultSetChecking ==
    /\ pr # NoObject
    /\ pr.Timestamp < MaxCalls
    /\ pr' = SetChecking(pr)
    /\ UNCHANGED <<mgrVars, det, snapVars, trackerVars, listVars>>

ResultSetLive ==
    /\ pr # NoObject
    /\ pr.Timestamp < MaxCalls
    /\ \E lat \in Latencies : pr' = SetLive(pr, lat, "ip")
    /\ UNCHANGED <<mgrVars, det, snapVars, trackerVars, listVars>>

ResultSetDead ==
    /\ pr # NoObject
    /\ pr.Timestamp < MaxCalls
    /\ \E err \in ErrorTexts : pr' = SetDead(pr, err)
    /\ UNCHANGED <<mgrVars, det, snapVars, trackerVars, listVars>>

ResultSetError ==
    /\ pr # NoObject
    /\ pr.Timestamp < MaxCalls
    /\ \E err \in ErrorTexts : pr' = SetError(pr, err)
    /\ UNCHANGED <<mgrVars, det, snapVars, trackerVars, listVars>>

ResultSetType ==
    /\ pr # NoObject
    /\ pr.Timestamp < MaxCalls
    /\ \E ty \in {HTTP, SOCKS5} : pr' = SetType(pr, ty)
    /\ UNCHANGED <<mgrVars, det, snapVars, trackerVars, listVars>>

\* Calls on one StatsTracker; each holds st.mutex from its first statement to
\* its return, so concurrent callers take turns.  The results folded have
\* any status: the five constants, and "LIVE" as the manager writes it.
TrackerStatuses == {StatusPending, StatusChecking, StatusLive, StatusDead,
                    StatusError, "LIVE"}
TrackerLatencies == {0, 2, 3}
TrackerResults ==
    { [NoObject EXCEPT !.Type = ty, !.Status = s, !.Latency = 0] :
          ty \in {"", HTTP}, s \in TrackerStatuses } \cup
    { [NoObject EXCEPT !.Type = HTTP, !.Status = StatusLive, !.Latency = lat] :
          lat \in TrackerLatencies }

TrackerReset ==
    /\ \E n \in 0..MaxTotal :
         /\ tracker' = Reset(n)
         /\ folded' = [n |-> n, results |-> <<>>]
    /\ UNCHANGED <<mgrVars, det, pr, snapVars, listVars>>

TrackerUpdate ==
    /\ Len(folded.results) < MaxFolds
    /\ \E result \in TrackerResults :
         /\ tracker' = UpdateWithResult(tracker, result)
         /\ folded' = [folded EXCEPT !.results = Append(@, result)]
    /\ UNCHANGED <<mgrVars, det, pr, snapVars, listVars>>

TrackerMarkCheckingAsDead ==
    /\ tracker' = MarkCheckingAsDead(tracker)
    /\ UNCHANGED <<mgrVars, det, pr, snapVars, folded, listVars>>

\* Calls on one ProxyResultList: the caller appends entries, and calls the
\* derived views on it.
ListStatuses == {StatusLive, StatusDead, "LIVE"}
ListTypes == {HTTP, SOCKS5}
ListEntries ==
    { [NoObject EXCEPT !.Proxy = proxy, !.Type = ty, !.Status = s] :
          proxy \in {1, 2}, ty \in ListTypes, s \in ListStatuses }

ListAppend ==
    /\ Len(resultList) < MaxList
    /\ \E r \in ListEntries : resultList' = Append(resultList, r)
    /\ view' = NoView
    /\ UNCHANGED <<mgrVars, det, pr, snapVars, trackerVars>>

ListFilterByStatus ==
    /\ \E status \in ListStatuses :
         LET call == FilterByStatus(resultList, status)
         IN  /\ view' = [op |-> "FilterByStatus", arg |-> status, out |-> call.out]
             /\ resultList' = call.l
    /\ UNCHANGED <<mgrVars, det, pr, snapVars, trackerVars>>

ListFilterByType ==
    /\ \E proxyType \in ListTypes \cup {HTTPS} :
         LET call == FilterByType(resultList, proxyType)
         IN  /\ view' = [op |-> "FilterByType", arg |-> proxyType, out |-> call.out]
             /\ resultList' = call.l
    /\ UNCHANGED <<mgrVars, det, pr, snapVars, trackerVars>>

ListGetLiveProxies ==
    /\ LET call == GetLiveProxies(resultList)
       IN  /\ view' = [op |-> "GetLiveProxies", arg |-> "", out |-> call.out]
           /\ resultList' = call.l
    /\ UNCHANGED <<mgrVars, det, pr, snapVars, trackerVars>>

ListGetLiveProxiesWithType ==
    /\ LET call == GetLiveProxiesWithType(resultList)
       IN  /\ view' = [op |-> "GetLiveProxiesWithType", arg |-> "",
                       out |-> call.out]
           /\ resultList' = call.l
    /\ UNCHANGED <<mgrVars, det, pr, snapVars, trackerVars>>

\* ------------------------------------------------------------- readers
\* GetResults that returns m.results itself: the caller's slice has the
\* array of the collection.
GetResultsCallSameArray ==
    /\ gotResults' = [list |-> GetResults, shared |-> TRUE]
    /\ ret' = NoRet
    /\ UNCHANGED <<mgrFlags, mgrData, mgrChans, runVars, history, unitVars,
                   gotStats>>

\* results := make([]ProxyResult, len(m.results)); copy(results, m.results):
\* a new array holding copies of the structs, whose fields are all values.
GetResultsCall ==
    /\ gotResults' = [list |-> GetResults, shared |-> FALSE]
    /\ ret' = NoRet
    /\ UNCHANGED <<mgrFlags, mgrData, mgrChans, runVars, history, unitVars,
                   gotStats>>

\* GetStats that returns a copy of the struct m.stats, and with it the map
\* m.stats.TypeCounts itself.
GetStatsCallSameMap ==
    /\ gotStats' = [stats |-> GetStats, shared |-> TRUE]
    /\ ret' = NoRet
    /\ UNCHANGED <<mgrFlags, mgrData, mgrChans, runVars, history, unitVars,
                   gotResults>>

\* A new Stats with a new map into which the entries are copied.
GetStatsCall ==
    /\ gotStats' = [stats |-> GetStats, shared |-> FALSE]
    /\ ret' = NoRet
    /\ UNCHANGED <<mgrFlags, mgrData, mgrChans, runVars, history, unitVars,
                   gotResults>>

\* The caller assigns to an element of the slice it got; the assignment
\* lands in m.results when the two share their array.
CallerWritesResult ==
    /\ \E k \in 1..Len(gotResults.list) :
         /\ gotResults.list[k].Status # "EDITED"
         /\ gotResults' = [gotResults EXCEPT !.list[k].Status = "EDITED"]
         /\ IF gotResults.shared /\ k <= Len(results)
            THEN results' = [results EXCEPT ![k].Status = "EDITED"]
            ELSE UNCHANGED results
    /\ ret' = NoRet
    /\ UNCHANGED <<mgrFlags, working, stats, mgrChans, runVars, history, unitVars,
                   gotStats>>

\* The caller assigns to an entry of the map it got; the assignment lands in
\* m.stats.TypeCounts when it is the same map.
CallerWritesCount ==
    /\ \E k \in {HTTP} :
         /\ gotStats.stats.TypeCounts[k] # -1
         /\ gotStats' = [gotStats EXCEPT !.stats.TypeCounts[k] = -1]
         /\ IF gotStats.shared
            THEN stats' = [stats EXCEPT !.TypeCounts[k] = -1]
            ELSE UNCHANGED stats
    /\ ret' = NoRet
    /\ UNCHANGED <<mgrFlags, results, working, mgrChans, runVars, history,
                   unitVars, gotResults>>

\* ------------------------------------------------------------- specification
WorkerStep(r, i) ==
    \/ TakeJob(r, i)
    \/ BoundarySelect(r, i)
    \/ EnterPauseWait(r, i)
    \/ LeavePauseWait(r, i)
    \/ ProbeDone(r, i)
    \/ CountLive(r, i)
    \/ AppendResult(r, i)

WatcherStep(r) ==
    \/ WatcherFinish(r)
    \/ WatcherNotify(r)

Next ==
    \/ Start
    \/ Stop
    \/ Pause
    \/ Resume
    \/ ForceStop
    \/ ForcePause
    \/ ClearResults
    \/ \E r \in Runs, i \in Slots : WorkerStep(r, i)
    \/ \E r \in Runs : WatcherStep(r)

Spec == Init /\ [][Next]_vars

\* Runs that nobody pauses, stops or clears.  The Go scheduler runs every
\* runnable goroutine and every probe returns (at the latest on its timeout),
\* so each step of a worker and of a watcher is weakly fair.
UndisturbedWorkerStep(r, i) ==
    \/ TakeJob(r, i)
    \/ BoundarySelect(r, i)
    \/ ProbeDone(r, i)
    \/ CountLive(r, i)
    \/ AppendResult(r, i)

UndisturbedNext ==
    \/ Start
    \/ \E r \in Runs, i \in Slots : UndisturbedWorkerStep(r, i)
    \/ \E r \in Runs : WatcherStep(r)

GoroutinesFair ==
    /\ \A r \in Runs, i \in Slots : WF_vars(WorkerStep(r, i))
    /\ \A r \in Runs : WF_vars(WatcherStep(r))

SpecUndisturbed == Init /\ [][UndisturbedNext]_vars /\ GoroutinesFair

\* Restarts: up to MaxRuns runs of one worker each over endpoints of a kind no
\* probe supports, driven by Start, Stop and Pause only.
RestartWorkerStep(r, i) ==
    \/ TakeJob(r, i)
    \/ BoundarySelect(r, i)
    \/ EnterPauseWait(r, i)
    \/ LeavePauseWait(r, i)
    \/ ProbeDone(r, i)
    \/ AppendResult(r, i)

RestartNext ==
    \/ StartRejected
    \/ \E n \in 0..MaxProxies :
           /\ submitted + n <= MaxJobs + 1
           /\ StartAccepted(n, 1, UNKNOWN)
    \/ Stop
    \/ Pause
    \/ \E r \in Runs : RestartWorkerStep(r, 1)
    \/ \E r \in Runs : WatcherStep(r)

SpecRestart == Init /\ [][RestartNext]_vars

\* One run that is paused and resumed, and never stopped or cleared.
PauseResumeNext ==
    \/ \E n \in 0..MaxProxies, t \in 1..MaxThreads, kind \in RequestTypes :
           /\ nruns = 0
           /\ StartAccepted(n, t, kind)
    \/ Pause
    \/ Resume
    \/ \E r \in Runs, i \in Slots : WorkerStep(r, i)
    \/ \E r \in Runs : WatcherStep(r)

SpecPauseResume == Init /\ [][PauseResumeNext]_vars

\* Runs of HTTP checks started with any worker count, zero and negative ones
\* included, and stopped or left to complete; nobody pauses.
ThreadsNext ==
    \/ StartRejected
    \/ \E n \in 0..MaxProxies, t \in 0..MaxThreads :
           /\ Spawned + t <= MaxWorkers
           /\ submitted + n <= MaxJobs
           /\ StartAccepted(n, t, HTTP)
    \/ \E n \in 0..MaxProxies, t \in (0 - MaxThreads)..(0 - 1) :
           /\ submitted + n <= MaxJobs
           /\ StartPanics(ProxyListOf(nruns + 1, n), t, HTTP)
    \/ Stop
    \/ \E r \in Runs, i \in Slots : UndisturbedWorkerStep(r, i)
    \/ \E r \in Runs : WatcherStep(r)

SpecThreads == Init /\ [][ThreadsNext]_vars

\* One run over up to MaxProxies endpoints, among them "not-an-address", of
\* any requested kind, with probes of different durations; nobody pauses,
\* stops or clears.
ProbeAddresses == {1, 2, NotAnAddress}
ProbeLatencies == {1, 3}
ProbeLists ==
    { l \in UNION { [1..n -> ProbeAddresses] : n \in 0..MaxProxies } :
        \A j, k \in DOMAIN l : l[j] = l[k] => j = k }

ProbesWorkerStep(r, i) ==
    \/ TakeJob(r, i)
    \/ BoundarySelect(r, i)
    \/ ProbeReturns(r, i, ProbeLatencies)
    \/ CountLive(r, i)
    \/ AppendResult(r, i)

ProbesNext ==
    \/ \E list \in ProbeLists, t \in 1..MaxThreads, kind \in ProxyTypes :
           /\ nruns = 0
           /\ Spawned + t <= MaxWorkers
           /\ StartList(list, t, kind)
    \/ \E r \in Runs, i \in Slots : ProbesWorkerStep(r, i)
    \/ \E r \in Runs : WatcherStep(r)

SpecProbes == Init /\ [][ProbesNext]_vars

\* One run of a requested kind http, socks4 or socks5, with or without an
\* upstream proxy of a supported kind, of an unsupported kind or of no kind.
UpstreamKinds == {HTTP, SOCKS4, SOCKS5}
UpstreamTypes == {"", HTTP, SOCKS5, UNKNOWN}

UpstreamNext ==
    \/ \E list \in ProbeLists, kind \in UpstreamKinds :
           /\ nruns = 0
           /\ \/ StartRequest(list, 1, kind, NoUpstream, "")
              \/ \E upstreamType \in UpstreamTypes :
                     StartRequest(list, 1, kind, UpstreamAddr, upstreamType)
    \/ \E r \in Runs, i \in Slots : ProbesWorkerStep(r, i)
    \/ \E r \in Runs : WatcherStep(r)

SpecUpstream == Init /\ [][UpstreamNext]_vars

\* One undisturbed run and a caller that reads the manager, writes into what
\* it got, and clears the results.
SnapshotsNext ==
    \/ \E n \in 0..MaxProxies, t \in 1..MaxThreads, kind \in RequestTypes :
           /\ nruns = 0
           /\ Spawned + t <= MaxWorkers
           /\ StartAccepted(n, t, kind)
    \/ \E r \in Runs, i \in Slots : UndisturbedWorkerStep(r, i)
    \/ \E r \in Runs : WatcherStep(r)
    \/ ClearResults
    \/ GetResultsCall
    \/ GetStatsCall
    \/ CallerWritesResult
    \/ CallerWritesCount

SpecSnapshots == Init /\ [][SnapshotsNext]_vars

\* Calls of DetectProxyType.
DetectNext ==
    \/ DetectCall
    \/ DetectStep

SpecDetect == Init /\ [][DetectNext]_vars

\* Calls on a ProxyResult.
ResultNext ==
    \/ ResultNew
    \/ ResultSetChecking
    \/ ResultSetLive
    \/ ResultSetDead
    \/ ResultSetError
    \/ ResultSetType

SpecResult == Init /\ [][ResultNext]_vars

\* Calls on a StatsTracker.
TrackerNext ==
    \/ TrackerReset
    \/ TrackerUpdate
    \/ TrackerMarkCheckingAsDead

SpecTracker == Init /\ [][TrackerNext]_vars

\* Calls on a ProxyResultList.
ListNext ==
    \/ ListAppend
    \/ ListFilterByStatus
    \/ ListFilterByType
    \/ ListGetLiveProxies
    \/ ListGetLiveProxiesWithType

SpecList == Init /\ [][ListNext]_vars

\* ------------------------------------------------------------- claims
\* C1: in every reachable state the snapshot returned by GetStats satisfies
\* Pending + Checking + Live + Dead + Errors = Total.
C1_StatsSum ==
    GetStats.Pending + GetStats.Checking + GetStats.Live + GetStats.Dead
        + GetStats.Errors = GetStats.Total

\* A run in which workers have appended a live and a dead result, so that the
\* stored Pending (never decremented by the workers) differs from the snapshot's.
C1_Witness ==
    /\ running
    /\ stats.Live >= 1
    /\ stats.Dead >= 1
    /\ GetStats.Pending # stats.Pending

\* The collection holds exactly one terminal result per endpoint of run r.
OneResultPerEndpoint(r) ==
    /\ Len(results) = Len(req[r].ProxyList)
    /\ \A k \in 1..Len(req[r].ProxyList) :
         Cardinality({ j \in 1..Len(results) :
                         results[j].Proxy = req[r].ProxyList[k] }) = 1
    /\ \A j \in 1..Len(results) : results[j].Status \in {"LIVE", "DEAD"}

\* C2: a run that is never paused, stopped or cleared completes: its watcher
\* clears the running flag, at that point the collection holds exactly one
\* terminal result per submitted endpoint, and the watcher then calls onUpdate.
C2_RunCompletes ==
    \A r \in Runs :
        /\ (watcher[r] = "wait") ~>
               (watcher[r] = "notify" /\ ~running /\ OneResultPerEndpoint(r))
        /\ (watcher[r] = "notify") ~> (watcher[r] = "done")

\* A run of two workers over two endpoints has completed and notified.
C2_Witness ==
    \E r \in Runs :
        /\ watcher[r] = "done"
        /\ req[r].Threads = 2
        /\ Len(req[r].ProxyList) = 2
        /\ Len(results) = 2
        /\ ~running

\* Workers of run r that have not returned.
Active(r) == { i \in Slots : w[r][i].pc \notin {"idle", "done"} }

\* C3: after Stop the running flag becomes false only once the watcher has
\* seen every worker of the run exit; while a worker of the run still
\* executes, IsRunning is true.
C3_RunningWhileWorkersActive ==
    \A r \in Runs :
        (r = nruns /\ stopped[r] \in {"running", "paused"} /\ Active(r) # {})
            => IsRunning

\* C4: after Stop returned on a run, no worker of that run begins to probe an
\* endpoint it had not already started.
C4_NoProbeStartsAfterStop ==
    [][\A r \in Runs, i \in Slots :
          (stopped[r] \in {"running", "paused"} /\ w[r][i].pc # "probe")
              => w'[r][i].pc # "probe"]_vars

\* C5: when Stop was called while the run was paused, a worker of that run in
\* the pause wait can leave it by the stop signal, without any Resume.
C5_StoppedWorkerLeavesPauseWait ==
    \A r \in Runs, i \in Slots :
        (stopped[r] = "paused" /\ w[r][i].pc = "wait") => IsClosed(w[r][i].sch)

\* C6: Pause returns true exactly when the manager is running and not paused,
\* then paused is true and the paused-worker counter 0; when it returns false
\* nothing of the manager has changed.
C6_PauseContract ==
    [][ret'.op = "Pause" =>
          /\ ret'.ok <=> (running /\ ~paused)
          /\ ret'.ok => (paused' /\ pausedWorkerCount' = 0 /\ running')
          /\ ~ret'.ok => UNCHANGED <<mgrFlags, mgrData, mgrChans, runVars>>]_vars

\* Pause was refused on a run that an earlier Pause had paused.
C6_Witness ==
    /\ ret = Ret("Pause", FALSE)
    /\ running
    /\ paused
    /\ IsClosed(pauseChan)

\* C7: Resume returns true exactly when the manager is running and paused;
\* then paused is false and the pause and resume channels are open channels no
\* worker waits on; when it returns false nothing of the manager has changed.
C7_ResumeContract ==
    [][ret'.op = "Resume" =>
          /\ ret'.ok <=> (running /\ paused)
          /\ ret'.ok =>
               /\ ~paused'
               /\ running'
               /\ pauseChan' \notin closed'
               /\ resumeChan' \notin closed'
               /\ resumeChan' \notin HeldBy(w')
               /\ pauseChan' # resumeChan'
          /\ ~ret'.ok => UNCHANGED <<mgrFlags, mgrData, mgrChans, runVars>>]_vars

\* Resume returned true while a worker was blocked in the pause wait.
C7_Witness ==
    /\ ret = Ret("Resume", TRUE)
    /\ \E r \in Runs, i \in Slots : w[r][i].pc = "wait" /\ IsClosed(w[r][i].rch)

\* C8: after Pause returned true on a run, and until Resume or Stop is called,
\* no worker of that run begins to probe an endpoint: a worker that reaches a
\* job boundary blocks, so only the probes in flight at the Pause add results.
C8_NoProbeStartsWhilePaused ==
    [][(pausedRun # 0 /\ pausedRun' = pausedRun) =>
          \A i \in Slots :
              w[pausedRun][i].pc # "probe" => w'[pausedRun][i].pc # "probe"]_vars

\* C9: once every worker of the paused run is blocked in the pause wait,
\* GetPausedWorkerCount equals GetWorkerCount.
C9_BlockedWorkersCounted ==
    (/\ running
     /\ paused
     /\ workerCount >= 1
     /\ \A i \in 1..workerCount : w[nruns][i].pc = "wait")
        => GetPausedWorkerCount = GetWorkerCount

\* C10: a worker of the current run that saw the pause signal is released by
\* the Resume of that pause: once the run is resumed, a worker in the pause
\* wait has its resume case ready.
C10_ResumeReleasesWaiters ==
    \A r \in Runs, i \in Slots :
        (r = nruns /\ running /\ ~paused /\ w[r][i].pc = "wait")
            => IsClosed(w[r][i].rch)

\* C11: a Start called while the manager is running only logs: it leaves the
\* flags, the worker count, the collection, the statistics and the channels
\* as they are, and while the manager is running no run, worker or watcher
\* is created.
C11_StartRejectedNoEffect ==
    [][/\ running =>
            /\ nruns' = nruns
            /\ \A r \in Runs : watcher[r] = "idle" => watcher'[r] = "idle"
            /\ \A r \in Runs, i \in Slots :
                   w[r][i].pc = "idle" => w'[r][i].pc = "idle"
       /\ ret' = Ret("Start", FALSE) =>
            /\ running
            /\ UNCHANGED <<mgrFlags, mgrData, mgrChans, runVars>>]_vars

\* Start was rejected on a run that has a result in its collection.
C11_Witness ==
    /\ ret = Ret("Start", FALSE)
    /\ running
    /\ Len(results) >= 1

\* The statistics as GetStats shows them are those of an empty manager.
StatsEmpty(st) ==
    /\ st.Total = 0
    /\ st.Pending = 0
    /\ st.Live = 0
    /\ st.Dead = 0
    /\ st.Errors = 0
    /\ \A k \in ProxyTypes : st.TypeCounts[k] = 0

\* C12: a call of ClearResults on a manager that is running and not paused
\* changes neither the collection nor the statistics; in any other state it
\* leaves the collection empty and the statistics zero, and the running and
\* paused flags as they were.
C12_ClearResultsContract ==
    [][ClearResults =>
          IF running /\ ~paused
          THEN UNCHANGED <<mgrFlags, mgrData, mgrChans, runVars>>
          ELSE /\ GetResults' = <<>>
               /\ StatsEmpty(GetStats')
               /\ UNCHANGED <<running, paused>>]_vars

\* A paused run over at least one endpoint whose total reads 0: the
\* statistics were cleared during the pause.
C12_Witness ==
    /\ running
    /\ paused
    /\ Len(req[nruns].ProxyList) >= 1
    /\ GetResults = <<>>
    /\ StatsEmpty(GetStats)

\* Every endpoint of the finished run r has its result in the collection.
AllProcessed(r) ==
    watcher[r] \in {"notify", "done"} => OneResultPerEndpoint(r)

\* C13: a probe that returns an error yields a dead result with that error's
\* text (a requested kind outside the four probes always does, with the
\* unsupported-type error); the worker appends it, Dead goes up by one, Errors
\* stays 0, the worker goes back to the queue, and the finished run has a
\* result for every endpoint.
C13_FailedProbeRecordedDead ==
    [][/\ \A r \in Runs, i \in Slots :
            (w[r][i].pc = "probe" /\ w'[r][i].pc # "probe") =>
                /\ w'[r][i].res.Proxy = w[r][i].proxy
                /\ w'[r][i].res.Error # "" => w'[r][i].res.Status = "DEAD"
                /\ req[r].ProxyType \notin QuickKinds \cup {Auto} =>
                       w'[r][i].res.Error = "unsupported proxy type"
       /\ \A r \in Runs, i \in Slots :
            (w[r][i].pc = "append" /\ w[r][i].res.Error # ""
                 /\ w'[r][i].pc # "append") =>
                /\ GetResults' = Append(GetResults, w[r][i].res)
                /\ GetStats'.Dead = GetStats.Dead + 1
                /\ w'[r][i].pc = "range"
       /\ GetStats'.Errors = 0
       /\ \A r \in Runs : AllProcessed(r)']_vars

\* A finished run of the kind "unknown" over two endpoints, both dead.
C13_Witness ==
    \E r \in Runs :
        /\ watcher[r] = "done"
        /\ req[r].ProxyType = UNKNOWN
        /\ GetStats.Dead = 2
        /\ \A j \in 1..Len(results) : results[j].Error = "unsupported proxy type"

\* Each of the four probes rejects "not-an-address" with the invalid-format
\* error and dials nothing, whatever the network would answer.
ProbesRejectBadFormat ==
    \A ty \in QuickKinds, reached \in BOOLEAN :
        CheckProxy(ty, NotAnAddress, NoUpstream, "", reached) =
            [err |-> ErrInvalidProxyFormat, dialed |-> FALSE]

\* The results of "not-an-address" in the collection are dead with the
\* invalid-format error.
BadFormatRecorded ==
    \A j \in 1..Len(results) :
        results[j].Proxy = NotAnAddress =>
            /\ results[j].Status = "DEAD"
            /\ results[j].Error = ErrInvalidProxyFormat

\* C14 as stated: the four probes reject "not-an-address" before dialing, and
\* in a run of any requested kind its result is dead with the invalid-format
\* error and the other endpoints are processed.
C14_BadFormatAnyKind ==
    /\ ProbesRejectBadFormat
    /\ BadFormatRecorded
    /\ \A r \in Runs : AllProcessed(r)

\* C14 amended: the same for the requested kinds http, https, socks4, socks5
\* and auto; for any other requested kind no probe is called and the result
\* is dead with the unsupported-type error.
C14_BadFormatProbedKinds ==
    /\ ProbesRejectBadFormat
    /\ \A r \in Runs :
         /\ (r = nruns /\ req[r].ProxyType \in QuickKinds \cup {Auto})
                => BadFormatRecorded
         /\ (r = nruns /\ req[r].ProxyType \notin QuickKinds \cup {Auto}) =>
                \A j \in 1..Len(results) :
                    /\ results[j].Status = "DEAD"
                    /\ results[j].Error = "unsupported proxy type"
         /\ AllProcessed(r)

\* A finished auto run over "not-an-address" and a well-formed endpoint that
\* turned out live.
C14_Witness ==
    \E r \in Runs :
        /\ watcher[r] = "done"
        /\ req[r].ProxyType = Auto
        /\ \E j, k \in 1..Len(results) :
              /\ results[j].Proxy = NotAnAddress
              /\ results[j].Error = ErrInvalidProxyFormat
              /\ results[k].Status = "LIVE"

\* The protocols tried up to and including the first whose quick check
\* succeeds; all of them when none does.
TriedUntilSuccess(q) ==
    IF \E j \in 1..Len(Protocols) : q[Protocols[j]]
    THEN SubSeq(Protocols, 1,
                CHOOSE j \in 1..Len(Protocols) :
                    /\ q[Protocols[j]]
                    /\ \A k \in 1..(j - 1) : ~q[Protocols[k]])
    ELSE Protocols

\* C15: DetectProxyType returns the first kind, in the order SOCKS5, SOCKS4,
\* HTTPS, HTTP, whose quick check succeeds, with no error; it has run the
\* checks up to that one and none after it; it returns an error and no kind
\* exactly when all four quick checks fail.
C15_DetectFirstSuccess ==
    /\ det.pc = "loop" => \A j \in 1..Len(det.ran) : ~det.quick[det.ran[j]]
    /\ det.pc = "done" =>
         /\ det.ran = TriedUntilSuccess(det.quick)
         /\ (det.err # "") <=> (\A k \in QuickKinds : ~det.quick[k])
         /\ det.err # "" => det.kind = ""
         /\ det.err = "" =>
              /\ det.kind = det.ran[Len(det.ran)]
              /\ det.quick[det.kind]

\* A call returned HTTPS for an address whose HTTP check would have succeeded
\* as well: three checks were run, the HTTP check was not.
C15_Witness ==
    /\ det.pc = "done"
    /\ det.kind = HTTPS
    /\ det.quick[HTTP]
    /\ det.ran = <<SOCKS5, SOCKS4, HTTPS>>

\* C16: in a run of the requested kind auto every result, appended or about
\* to be, carries one of the four kinds, a failed detection resolves to http,
\* and the finished run has a result for every endpoint.
C16_AutoResolved ==
    /\ \A a \in ProbeAddresses : \A q \in QuickOutcomes(a) :
           DetectProxyType(a, q).err # "" =>
               ResolveType(Auto, DetectProxyType(a, q).kind) = HTTP
    /\ \A r \in Runs :
         (r = nruns /\ req[r].ProxyType = Auto) =>
             /\ \A j \in 1..Len(results) : results[j].Type \in QuickKinds
             /\ \A i \in Slots :
                    w[r][i].pc \in {"count", "append"} =>
                        w[r][i].res.Type \in QuickKinds
             /\ AllProcessed(r)

\* A finished auto run whose two results carry different kinds.
C16_Witness ==
    \E r \in Runs :
        /\ watcher[r] = "done"
        /\ req[r].ProxyType = Auto
        /\ Len(results) = 2
        /\ results[1].Type # results[2].Type

\* C17: the status of a ProxyResult only moves forward: a live, dead or error
\* status never changes again, and checking never goes back to pending.
C17_StatusMonotonic ==
    [][/\ pr.Status \in {StatusLive, StatusDead, StatusError}
            => pr'.Status = pr.Status
       /\ pr.Status = StatusChecking => pr'.Status # StatusPending]_vars

\* The results of the collection that satisfy P.
CountResults(P(_)) == Cardinality({ j \in 1..Len(results) : P(results[j]) })

\* C18: the counters equal a recount of the collection: Live, Dead and Errors
\* by status, each per-kind count by kind, and the three status counters add
\* up to the number of results.
C18_StatsEqualRecount ==
    /\ GetStats.Live = CountResults(LAMBDA x : x.Status = "LIVE")
    /\ GetStats.Dead = CountResults(LAMBDA x : x.Status = "DEAD")
    /\ GetStats.Errors = CountResults(LAMBDA x : x.Status \notin {"LIVE", "DEAD"})
    /\ \A k \in ProxyTypes :
           GetStats.TypeCounts[k] = CountResults(LAMBDA x : x.Type = k)
    /\ Len(results) = GetStats.Live + GetStats.Dead + GetStats.Errors

\* The collection of a second run holds a live and a dead result.
C18_Witness ==
    /\ nruns >= 2
    /\ \E j, k \in 1..Len(results) :
           results[j].Status = "LIVE" /\ results[k].Status = "DEAD"

\* The sum of the latencies of the live results of a list.
RECURSIVE LiveLatency(_)
LiveLatency(list) ==
    IF list = <<>>
    THEN 0
    ELSE (IF Head(list).Status = "LIVE" THEN Head(list).Latency ELSE 0)
             + LiveLatency(Tail(list))

\* C19: whenever the collection holds a live result, AverageSpeed is the
\* integer quotient of the summed latencies of its live results by their
\* number.
C19_AverageSpeedOfLiveResults ==
    CountResults(LAMBDA x : x.Status = "LIVE") >= 1 =>
        GetStats.AverageSpeed =
            LiveLatency(results) \div CountResults(LAMBDA x : x.Status = "LIVE")

\* C20: a step that changes what a caller holds from GetResults or GetStats
\* (the call itself, or the caller's write into the returned list or map)
\* leaves the manager as it is, and a step that changes the manager's
\* collection or statistics leaves what the caller holds as it is.
C20_ReadersReturnCopies ==
    [][/\ (gotResults'.list # gotResults.list \/ gotStats'.stats # gotStats.stats)
            => UNCHANGED <<mgrFlags, mgrData, mgrChans, runVars>>
       /\ (results' # results \/ stats' # stats)
            => (gotResults'.list = gotResults.list
                   /\ gotStats'.stats = gotStats.stats)]_vars

\* The caller has written into the list and the map it got, the manager's
\* values are not those, and a worker has appended since the list was read.
C20_Witness ==
    /\ Len(gotResults.list) >= 1
    /\ gotResults.list[1].Status = "EDITED"
    /\ Len(results) > Len(gotResults.list)
    /\ results[1].Status # "EDITED"
    /\ gotStats.stats.TypeCounts[HTTP] = -1
    /\ GetStats.TypeCounts[HTTP] >= 1

\* With an upstream proxy address, the SOCKS4 and the SOCKS5 probe of a
\* well-formed endpoint return their upstream-not-supported error and dial
\* nothing, whatever the upstream kind and whatever the network would answer.
SocksProbesRefuseUpstream ==
    \A ty \in {SOCKS4, SOCKS5}, proxy \in Addresses \ {NotAnAddress},
       upstreamType \in ProxyTypes \cup {""}, reached \in BOOLEAN :
        CheckProxy(ty, proxy, UpstreamAddr, upstreamType, reached) =
            [err |-> ErrUpstreamNotSupported(ty), dialed |-> FALSE]

\* C21: for a well-formed endpoint and a non-empty upstream proxy address
\* the SOCKS4 and SOCKS5 probes fail with their upstream-not-supported error
\* without dialing, whatever the upstream kind; and in a run of the requested
\* kind socks4 or socks5 with an upstream proxy every result of a well-formed
\* endpoint is dead with that error, and nothing is live.
C21_SocksUpstreamUnsupported ==
    /\ SocksProbesRefuseUpstream
    /\ \A r \in Runs :
         (r = nruns /\ req[r].ProxyType \in {SOCKS4, SOCKS5}
              /\ req[r].UpstreamProxy # NoUpstream) =>
            /\ \A j \in 1..Len(results) :
                   Contains(AddrText(results[j].Proxy), ":") =>
                       /\ results[j].Status = "DEAD"
                       /\ results[j].Error =
                              ErrUpstreamNotSupported(req[r].ProxyType)
            /\ working = <<>>
            /\ GetStats.Live = 0

\* A finished socks5 run over two well-formed endpoints with an upstream
\* proxy of the kind http: both results carry the error.
C21_Witness ==
    \E r \in Runs :
        /\ watcher[r] = "done"
        /\ req[r].ProxyType = SOCKS5
        /\ req[r].UpstreamProxy = UpstreamAddr
        /\ req[r].UpstreamType = HTTP
        /\ Len(results) = 2
        /\ \A j \in 1..2 :
              /\ Contains(AddrText(results[j].Proxy), ":")
              /\ results[j].Error = ErrUpstreamNotSupported(SOCKS5)

\* C22: after ForceStop returned on a running run, a worker of that run that
\* is at its job-boundary check exits there: it does not go on to probe the
\* endpoint it took, nor into the pause wait.
C22_ForceStopEndsWorkers ==
    [][\A r \in Runs, i \in Slots :
          (stopped[r] = "forced" /\ w[r][i].pc = "select")
              => w'[r][i].pc \in {"select", "done"}]_vars

\* C23: ForcePause returns true exactly when the manager is running and not
\* paused; then IsPaused is true and GetPausedWorkerCount equals
\* GetWorkerCount on return; when it returns false nothing of the manager has
\* changed.
C23_ForcePauseContract ==
    [][ret'.op = "ForcePause" =>
          /\ ret'.ok <=> (running /\ ~paused)
          /\ ret'.ok => (IsPaused' /\ GetPausedWorkerCount' = GetWorkerCount')
          /\ ~ret'.ok => UNCHANGED <<mgrFlags, mgrData, mgrChans, runVars>>]_vars

\* ForcePause returned true on a run of two workers, and the counter shows two.
C23_Witness ==
    /\ ret = Ret("ForcePause", TRUE)
    /\ IsPaused
    /\ GetWorkerCount = 2
    /\ GetPausedWorkerCount = 2

\* C24: after ForcePause returned true, and before any other call is made on
\* the manager (so neither Resume nor Stop was called), a worker of the run
\* that reaches its job-boundary check does not go on to probe its endpoint.
C24_NoProbeStartsWhileForcePaused ==
    [][\A i \in Slots :
          (/\ ret = Ret("ForcePause", TRUE)
           /\ IsPaused
           /\ w[nruns][i].pc = "select")
              => w'[nruns][i].pc # "probe"]_vars

\* Where the endpoint e of run r is: how often in the queue of the run, with
\* how many workers of the run, and how often in the collection.
InQueue(r, e) == Cardinality({ k \in 1..Len(jobs[r]) : jobs[r][k] = e })
HeldByWorkers(r, e) == Cardinality({ i \in Slots : w[r][i].proxy = e })
InResults(e) == Cardinality({ j \in 1..Len(results) : results[j].Proxy = e })

\* Every endpoint of every run is in at most one place.
HandedOutOnce ==
    \A r \in 1..nruns :
        \A k \in 1..Len(req[r].ProxyList) :
            LET e == req[r].ProxyList[k]
            IN  InQueue(r, e) + HeldByWorkers(r, e) + InResults(e) <= 1

\* C25: an accepted Start creates exactly workerCount workers, none of which
\* has run yet, and one watcher, over a queue that holds the submitted
\* endpoints, each once; afterwards every endpoint of a run is in the queue,
\* or with one worker, or has one result, never two of these: no endpoint is
\* taken by two workers or yields two results.
C25_QueueHandsOutOnce ==
    [][/\ nruns' = nruns + 1 =>
            /\ GetWorkerCount' = req'[nruns'].Threads
            /\ Cardinality({ i \in Slots : w'[nruns'][i].pc # "idle" })
                   = GetWorkerCount'
            /\ \A i \in Slots : w'[nruns'][i].pc \in {"idle", "range"}
            /\ watcher'[nruns'] = "wait"
            /\ wg'[nruns'] = GetWorkerCount'
            /\ jobs'[nruns'] = req'[nruns'].ProxyList
       /\ HandedOutOnce']_vars

\* A finished run of two workers over two endpoints: each has its one result.
C25_Witness ==
    \E r \in Runs :
        /\ watcher[r] = "done"
        /\ req[r].Threads = 2
        /\ Len(req[r].ProxyList) = 2
        /\ \A k \in 1..2 : InResults(req[r].ProxyList[k]) = 1

\* C26: whatever is called on the manager meanwhile, a worker that has begun
\* to probe an endpoint goes on to the end of the probe and to the append,
\* and its step out of the append adds that endpoint's result to the
\* collection and one to Live or Dead; a worker enters the pause wait or
\* returns only from the job boundary (the end of the queue, the boundary
\* check, the pause wait).
C26_SignalsOnlyAtJobBoundary ==
    [][\A r \in Runs, i \in Slots :
          /\ w[r][i].pc = "probe" => w'[r][i].pc \in {"probe", "count", "append"}
          /\ w[r][i].pc = "count" => w'[r][i].pc \in {"count", "append"}
          /\ w[r][i].pc = "append" =>
                \/ w'[r][i] = w[r][i]
                \/ /\ w'[r][i].pc = "range"
                   /\ GetResults' = Append(GetResults, w[r][i].res)
                   /\ w[r][i].res.Proxy = w[r][i].proxy
                   /\ w[r][i].res.Status \in {"LIVE", "DEAD"}
                   /\ GetStats'.Live + GetStats'.Dead
                          = GetStats.Live + GetStats.Dead + 1
          /\ (w'[r][i].pc = "paused" /\ w[r][i].pc # "paused")
                 => w[r][i].pc = "select"
          /\ (w'[r][i].pc = "done" /\ w[r][i].pc # "done")
                 => w[r][i].pc \in {"range", "select", "wait"}]_vars

\* A run of one worker over two endpoints that was stopped once the worker
\* was past the boundary check of the first: the result of the first is in
\* the collection, and the worker returned without one for the second.
C26_Witness ==
    /\ nruns = 1
    /\ stopped[1] = "running"
    /\ req[1].Threads = 1
    /\ Len(req[1].ProxyList) = 2
    /\ w[1][1].pc = "done"
    /\ Len(results) = 1
    /\ results[1].Proxy = req[1].ProxyList[1]
    /\ jobs[1] = <<>>

\* The sequence a is an initial part of the sequence b.
IsPrefix(a, b) == Len(a) <= Len(b) /\ a = SubSeq(b, 1, Len(a))

\* C27: a step that is neither an accepted Start nor an accepted ClearResults
\* leaves what GetResults returns a prefix of what it returns afterwards (no
\* entry removed, reordered or modified); an entry is live or dead when it is
\* appended; and a GetResults snapshot is the collection at the time of the
\* call, so of two successive snapshots the earlier is a prefix of the later.
C27_ResultsAppendOnly ==
    [][/\ \/ nruns' # nruns
          \/ (ClearResults /\ ~(running /\ ~paused))
          \/ IsPrefix(GetResults, GetResults')
       /\ Len(GetResults') = Len(GetResults) + 1 =>
              GetResults'[Len(GetResults')].Status \in {"LIVE", "DEAD"}
       /\ GetResultsCall => gotResults'.list = GetResults]_vars

\* A caller holds a snapshot of one entry it has not touched while the
\* collection has two: the snapshot is the first entry of the collection.
C27_Witness ==
    /\ Len(gotResults.list) = 1
    /\ Len(GetResults) = 2
    /\ IsPrefix(gotResults.list, GetResults)
    /\ running

\* The counts of the tracker add up to Total, the argument of the last Reset.
TrackerSum ==
    /\ tracker.stats.Pending + tracker.stats.Checking + tracker.stats.Live
           + tracker.stats.Dead + tracker.stats.Errors = tracker.stats.Total
    /\ tracker.stats.Total = folded.n

\* C28: after Reset(n) and any calls of UpdateWithResult, with results of any
\* status, and of MarkCheckingAsDead, in any order, Pending + Checking + Live
\* + Dead + Errors = Total = n; MarkCheckingAsDead adds Checking to Dead, sets
\* Checking to 0 and leaves Total, Pending, Live and Errors as they were.
C28_TrackerCountsAddUp ==
    [][/\ TrackerSum'
       /\ TrackerMarkCheckingAsDead =>
            /\ tracker'.stats.Dead = tracker.stats.Dead + tracker.stats.Checking
            /\ tracker'.stats.Checking = 0
            /\ tracker'.stats.Total = tracker.stats.Total
            /\ tracker'.stats.Pending = tracker.stats.Pending
            /\ tracker'.stats.Live = tracker.stats.Live
            /\ tracker'.stats.Errors = tracker.stats.Errors]_vars

\* After Reset(2) two checking results were folded and MarkCheckingAsDead
\* moved them to Dead.
C28_Witness ==
    /\ folded.n = 2
    /\ Len(folded.results) = 2
    /\ \A k \in 1..2 : folded.results[k].Status = StatusChecking
    /\ tracker.stats.Dead = 2
    /\ tracker.stats.Checking = 0
    /\ tracker.stats.Pending = 0

\* The sum of the latencies of the results of a sequence.
RECURSIVE SumLatency(_)
SumLatency(rs) ==
    IF rs = <<>> THEN 0 ELSE Head(rs).Latency + SumLatency(Tail(rs))

\* The live results folded since the Reset, and those of a positive latency.
FoldedLive == SelectSeq(folded.results, LAMBDA r : r.Status = StatusLive)
FoldedLivePositive ==
    SelectSeq(folded.results, LAMBDA r : r.Status = StatusLive /\ r.Latency > 0)

\* C29 as stated: after a Reset (here of a total of at least 1), once a live
\* result was folded, AverageSpeed is the integer quotient of the summed
\* latencies of the live results folded since the Reset by their number
\* (Live), latencies of 0 included.
C29_AverageOfAllLive ==
    (folded.n >= 1 /\ Len(FoldedLive) >= 1) =>
        /\ tracker.stats.Live = Len(FoldedLive)
        /\ tracker.stats.AverageSpeed = SumLatency(FoldedLive) \div Len(FoldedLive)

\* C29 amended: Live counts every live result folded since the Reset; once
\* one of a positive latency was folded, AverageSpeed is the integer quotient
\* of the summed latencies of the live results of a positive latency by their
\* number, and until then it is 0.
C29_AverageOfLivePositive ==
    /\ tracker.stats.Live = Len(FoldedLive)
    /\ Len(FoldedLivePositive) >= 1 =>
           tracker.stats.AverageSpeed =
               SumLatency(FoldedLivePositive) \div Len(FoldedLivePositive)
    /\ Len(FoldedLivePositive) = 0 => tracker.stats.AverageSpeed = 0

\* Live results of the latencies 0, 2 and 3 were folded: Live is 3 and the
\* average 5 / 2 = 2.
C29_Witness ==
    /\ Len(FoldedLive) = 3
    /\ \E i, j, k \in 1..3 :
          /\ FoldedLive[i].Latency = 0
          /\ FoldedLive[j].Latency = 2
          /\ FoldedLive[k].Latency = 3
    /\ tracker.stats.Live = 3
    /\ tracker.stats.AverageSpeed = 2

\* C30: FilterByStatus(s) and FilterByType(k) return exactly the entries of
\* the status s (of the kind k) in their order in the list; GetLiveProxies
\* returns the endpoints of the live entries in order, and
\* GetLiveProxiesWithType the same entries each as kind, "://", endpoint; the
\* list they are called on is afterwards as it was.
C30_ViewsArePure ==
    [][LET live == SelectSeq(resultList, LAMBDA r : r.Status = StatusLive)
       IN  /\ (ListFilterByStatus \/ ListFilterByType \/ ListGetLiveProxies
                  \/ ListGetLiveProxiesWithType) => resultList' = resultList
           /\ ListFilterByStatus =>
                view'.out = SelectSeq(resultList,
                                      LAMBDA r : r.Status = view'.arg)
           /\ ListFilterByType =>
                view'.out = SelectSeq(resultList, LAMBDA r : r.Type = view'.arg)
           /\ ListGetLiveProxies =>
                /\ Len(view'.out) = Len(live)
                /\ \A k \in 1..Len(live) : view'.out[k] = live[k].Proxy
           /\ ListGetLiveProxiesWithType =>
                /\ Len(view'.out) = Len(live)
                /\ \A k \in 1..Len(live) :
                      LET text == view'.out[k]
                          n == Len(TypeText(live[k].Type))
                      IN  /\ SubSeq(text, 1, n) = TypeText(live[k].Type)
                          /\ SubSeq(text, n + 1, n + 3) = <<":", "/", "/">>
                          /\ SubSeq(text, n + 4, Len(text))
                                 = AddrText(live[k].Proxy)]_vars

\* FilterByStatus(live) on a list of three entries, the second of them dead,
\* returned the first and the third.
C30_Witness ==
    /\ view.op = "FilterByStatus"
    /\ view.arg = StatusLive
    /\ Len(resultList) = 3
    /\ resultList[2].Status = StatusDead
    /\ view.out = <<resultList[1], resultList[3]>>

\* C31: in a run that is never stopped or cleared and in which every Pause
\* that returned true was followed by a Resume, once the watcher has seen the
\* workers return the collection holds exactly one result for every
\* submitted endpoint.
C31_NoEndpointLostAcrossPause ==
    \A r \in Runs :
        (watcher[r] \in {"notify", "done"} /\ pausedRun = 0)
            => OneResultPerEndpoint(r)

\* C32: every result in the collection belongs to an endpoint of the list of
\* the latest accepted Start: no worker of an earlier run adds a result to
\* the collection of the run that followed its Stop.
C32_ResultsOfLatestStart ==
    \A j \in 1..Len(results) :
        \E k \in 1..Len(req[nruns].ProxyList) :
            results[j].Proxy = req[nruns].ProxyList[k]

\* C33: while a worker of the latest accepted Start is active and no Stop or
\* ForceStop was accepted since that Start, IsRunning is true: the watcher of
\* an earlier run does not clear the flag of the later one.
C33_LatestRunKeepsRunning ==
    (nruns >= 1 /\ stopped[nruns] = "no" /\ Active(nruns) # {}) => IsRunning

\* C34: whenever the manager is running its stop channel is open, whenever
\* it is running and not paused its pause channel is open, and its resume
\* channel is open after every operation; so the close in Pause, ForcePause,
\* Resume and ForceStop never meets a closed channel.
C34_NoDoubleClose ==
    /\ IsRunning => ~IsClosed(stopChan)
    /\ (IsRunning /\ ~IsPaused) => ~IsClosed(pauseChan)
    /\ ~IsClosed(resumeChan)

\* A second run, started after a Stop, was paused and resumed: it runs on
\* three open channels while a worker still waits on a closed one.
C34_Witness ==
    /\ nruns = 2
    /\ stopped[1] # "no"
    /\ ret = Ret("Resume", TRUE)
    /\ IsRunning
    /\ closed # {}
    /\ ~IsClosed(stopChan)
    /\ ~IsClosed(pauseChan)

\* C35: every snapshot GetStats can return has 0 <= Pending <= Total and
\* Live + Dead + Errors <= Total.
C35_StatsWithinTotal ==
    /\ 0 <= GetStats.Pending
    /\ GetStats.Pending <= GetStats.Total
    /\ GetStats.Live + GetStats.Dead + GetStats.Errors <= GetStats.Total

\* The tracker after Reset(n) and the folds of seq, in order.
RECURSIVE FoldAll(_, _)
FoldAll(st, seq) ==
    IF seq = <<>>
    THEN st
    ELSE FoldAll(UpdateWithResult(st, Head(seq)), Tail(seq))

\* How many of the first p folded results were folded in the checking state,
\* and how many in a terminal state.
FoldedChecking(p) ==
    Cardinality({j \in 1..p : folded.results[j].Status = StatusChecking})

FoldedTerminal(p) ==
    Cardinality({j \in 1..p : folded.results[j].Status \in
                                  {StatusLive, StatusDead, StatusError}})

\* The folds since the last Reset(n) follow the life cycle of n results: each
\* is folded as checking before it is folded as terminal, and nothing else
\* acted on the tracker.
FoldedLifeCycle ==
    /\ folded.n >= 1
    /\ tracker = FoldAll(Reset(folded.n), folded.results)
    /\ \A p \in 1..Len(folded.results) :
         /\ folded.results[p].Status # StatusPending
         /\ FoldedTerminal(p) <= FoldedChecking(p)
         /\ FoldedChecking(p) <= folded.n

\* C36: along the life cycle, Pending >= 0 and Checking is the number of
\* results that are checking and not yet terminal; once all n results are
\* terminal, Pending = 0, Checking = 0 and Live + Dead + Errors = n.
C36_TrackerFollowsLifeCycle ==
    FoldedLifeCycle =>
        LET len == Len(folded.results)
        IN  /\ tracker.stats.Pending >= 0
            /\ tracker.stats.Checking = FoldedChecking(len) - FoldedTerminal(len)
            /\ FoldedTerminal(len) = folded.n =>
                 /\ tracker.stats.Pending = 0
                 /\ tracker.stats.Checking = 0
                 /\ tracker.stats.Live + tracker.stats.Dead
                        + tracker.stats.Errors = folded.n

\* C37: paused implies running: IsPaused is never true while IsRunning is
\* false.
C37_PausedImpliesRunning == IsPaused => IsRunning

\* C38: for every integer worker count Start returns (it does not panic), the
\* manager is never left running with nothing that will clear the flag (the
\* watcher of the current run waits for its workers), and a run that was
\* marked completed without a stop has an empty job queue.
C38_AnyWorkerCountIsSafe ==
    /\ ret # Ret("Start: panic", FALSE)
    /\ IsRunning => watcher[nruns] = "wait"
    /\ \A r \in Runs :
         (watcher[r] \in {"notify", "done"} /\ stopped[r] = "no")
             => jobs[r] = <<>>

\* App.GetWorkingProxies, the loop over the manager's results: the endpoints
\* of the results whose Status is "live", "working" or "success", compared as
\* written (the loop over the App's own results lower-cases first).
ManagerResultsFallback(managerResults) ==
    LET live == FilterLoop(managerResults,
                           { r \in Entries(managerResults) :
                                 r.Status \in {"live", "working", "success"} },
                           <<>>)
    IN  [k \in 1..Len(live) |-> live[k].Proxy]

\* The endpoints of the collection whose probe returned no error.
ProbeSucceeded == { results[j].Proxy : j \in { k \in 1..Len(results) :
                                                   results[k].Error = "" } }

\* C39: over the list GetResults returns, GetLiveProxies gives exactly the
\* endpoints whose probe succeeded, as many as the Live counter of GetStats;
\* so does the manager-results loop of App.GetWorkingProxies.
C39_LiveViewsAgreeWithRun ==
    LET live == GetLiveProxies(GetResults).out
        fallback == ManagerResultsFallback(GetResults)
    IN  /\ Entries(live) = ProbeSucceeded
        /\ Len(live) = GetStats.Live
        /\ Entries(fallback) = ProbeSucceeded
        /\ Len(fallback) = GetStats.Live
====
